---------------------------- MODULE Spec2Model ----------------------------
(***************************************************************************)
(* Record-reversal engine of coreutils-rs (src/src/tac/core.rs).           *)
(*                                                                         *)
(* One engine call is modelled as a state machine: the caller's buffer,    *)
(* the separator, the attachment mode and the entry point are the inputs;  *)
(* the sink is an io::Write whose every write() answers with a full write, *)
(* a short write, Ok(0) or an error.  The BufWriter the engine wraps the   *)
(* sink in is modelled with the behaviour of std::io::BufWriter            *)
(* (write_all, flush_buf, flush, Drop).  Offsets are 0-based as in the     *)
(* source; Slice(d, s, e) is d[s..e].                                      *)
(*                                                                         *)
(* The LIST parser of cut (src/src/cut/core.rs, parse_ranges) is modelled  *)
(* as a second state machine over its own variables: the LIST is a         *)
(* sequence of characters, split, trimmed and parsed as the source does.   *)
(***************************************************************************)
EXTENDS Integers, Sequences, FiniteSets, TLC

\* ------------------------------------------------------------------ bounds

\* Longest generated input buffer.
MaxLen == 4

\* Longest generated byte-string separator.
MaxSepLen == 2

\* Sink answers other than "all bytes accepted" allowed during one behaviour
\* (short writes, Ok(0), errors); bounds the retry loops on Interrupted.
MaxFaults == 2

\* Capacity of the BufWriter: BUF_SIZE of the source (16 MiB) scaled to the
\* model so that inputs both below and above the capacity are generated.
BUF_SIZE == 3

\* Largest position written in the items of a generated LIST.
MaxPos == 3

\* Most items of a generated LIST (the scenarios aside).
MaxItems == 2

\* usize::MAX scaled to the model: the numerals of a LIST are one or two
\* digits, and a numeral above USIZE_MAX overflows as one above 2^64 - 1 does.
USIZE_MAX == 7

\* Most lines of a generated file of comm (the scenarios aside).
MaxLines == 2

\* The 1 MiB below which read_file_for_tac reads instead of mapping, scaled.
SMALL_FILE_LIMIT == 3

\* Most files on a command line of ftac.
MaxFiles == 3

\* Longest input of the base64 encoders and widest wrap column.
MaxData == 7

MaxWrap == 5

\* The 768 KiB of input encode_wrapped aims at per chunk, scaled (a multiple
\* of 3, as 768 * 1024 is).
WRAP_CHUNK == 6

\* The 1 MiB STREAM_ENCODE_CHUNK is rounded down from, scaled.
STREAM_BASE == 7

\* The capacity of the BufWriter of encode_stream (1 MiB), scaled.
STREAM_BUF == 4

\* flush_threshold of comm (4 MiB) scaled to the model, so that the output
\* buffer is flushed in the middle of a run.
FLUSH_THRESHOLD == 4

\* Bytes the generated buffers and separators are made of ("\n" and "a").
Alphabet == {10, 97}

\* ----------------------------------------------------------------- helpers

Min(S) == CHOOSE x \in S : \A y \in S : x <= y

Max(S) == CHOOSE x \in S : \A y \in S : x >= y

\* d[s..e]
Slice(d, s, e) == SubSeq(d, s + 1, e)

\* slice.reverse()
Reverse(s) == [k \in 1..Len(s) |-> s[Len(s) + 1 - k]]

\* All sequences over S of length lo..hi.
SeqsOf(S, lo, hi) == UNION {[1..n -> S] : n \in lo..hi}

RECURSIVE Concat(_)
Concat(ss) == IF ss = <<>> THEN <<>> ELSE Head(ss) \o Concat(Tail(ss))

\* ------------------------------------------------------- separator locator

\* Mutant of memchr_iter: the offsets collected by a backward scan and not
\* put back in ascending order.
memchr_iter_descending(sep, d) ==
    SelectSeq([k \in 1..Len(d) |-> Len(d) - k], LAMBDA p : d[p + 1] = sep)

\* memchr::memchr_iter(sep, data).collect(): every offset holding the byte.
memchr_iter(sep, d) ==
    SelectSeq([k \in 1..Len(d) |-> k - 1], LAMBDA p : d[p + 1] = sep)

\* Whether needle occurs in d at offset p.
OccursAt(d, needle, p) ==
    /\ p + Len(needle) <= Len(d)
    /\ Slice(d, p, p + Len(needle)) = needle

\* Mutant of FindIterStep: the search resumes one byte after the start of a
\* match, so overlapping occurrences are reported.
FindIterStep_one(needle) == 1

\* The step of memmem's FindIter after a match: pos + max(1, needle.len()).
FindIterStep(needle) == IF Len(needle) > 1 THEN Len(needle) ELSE 1

RECURSIVE FindFrom(_, _, _)
FindFrom(d, needle, from) ==
    IF from + Len(needle) > Len(d) THEN <<>>
    ELSE IF OccursAt(d, needle, from)
         THEN <<from>> \o FindFrom(d, needle, from + FindIterStep(needle))
         ELSE FindFrom(d, needle, from + 1)

\* memchr::memmem::find_iter(data, separator).collect(): the occurrences left
\* to right, the search resuming after the end of each one.
find_iter(d, needle) == FindFrom(d, needle, 0)

\* ------------------------------------------------------------------- regex
\* A pattern is [op, arg]: "lit" the literal byte arg[1], "plus" arg[1]+,
\* "star" arg[1]*, "str" the literal byte string arg, "bad" a pattern that
\* Regex::new rejects.

Pat(op, arg) == [op |-> op, arg |-> arg]

NoPattern == Pat("none", <<>>)

\* Regex::new(pattern).is_ok()
Compiles(re) == re.op # "bad"

\* Length of the run of byte b in buf from offset p.
RECURSIVE RunLen(_, _, _)
RunLen(buf, b, p) ==
    IF p < Len(buf) /\ buf[p + 1] = b THEN 1 + RunLen(buf, b, p + 1) ELSE 0

\* End of the (leftmost-first, greedy) match of re that starts exactly at
\* offset p of buf, or -1.
MatchEndAt(re, buf, p) ==
    CASE re.op = "lit"  -> IF RunLen(buf, re.arg[1], p) >= 1 THEN p + 1 ELSE -1
      [] re.op = "plus" -> IF RunLen(buf, re.arg[1], p) >= 1
                           THEN p + RunLen(buf, re.arg[1], p) ELSE -1
      [] re.op = "star" -> p + RunLen(buf, re.arg[1], p)
      [] re.op = "str"  -> IF OccursAt(buf, re.arg, p) THEN p + Len(re.arg) ELSE -1
      [] OTHER          -> -1

NoMatch == <<-1, -1>>

\* re.find_at(buf, pos): the leftmost match starting at or after pos.
find_at(re, buf, pos) ==
    LET S == {s \in pos..Len(buf) : MatchEndAt(re, buf, s) # -1}
    IN  IF S = {} THEN NoMatch ELSE <<Min(S), MatchEndAt(re, buf, Min(S))>>

\* Mutant of BackwardHit: the window is searched forward, the leftmost match
\* taken for the rightmost.
BackwardHit_leftmost(d, re, past_end) ==
    find_at(re, Slice(d, 0, past_end), 0)

\* The inner loop: pos from past_end - 1 down to 0, the first pos at which
\* find_at returns a match starting at pos.
BackwardHit(d, re, past_end) ==
    LET buf == Slice(d, 0, past_end)
        S   == {pos \in 0..(past_end - 1) : find_at(re, buf, pos)[1] = pos}
    IN  IF S = {} THEN NoMatch ELSE find_at(re, buf, Max(S))

\* The outer loop: the matches in discovery order (rightmost first).
RECURSIVE BackwardScan(_, _, _)
BackwardScan(d, re, past_end) ==
    IF past_end <= 0 THEN <<>>
    ELSE LET m == BackwardHit(d, re, past_end)
         IN  IF m = NoMatch THEN <<>>
             ELSE <<m>> \o BackwardScan(d, re, m[1])

\* Mutant of find_regex_matches_backward: the list left in discovery order.
find_regex_matches_backward_unreversed(d, re) == BackwardScan(d, re, Len(d))

\* The matches in ascending order: `matches.reverse(); matches`.
find_regex_matches_backward(d, re) == Reverse(BackwardScan(d, re, Len(d)))

\* ------------------------------------------------------- record assembler

\* Mutant of AfterRecords: a record starts at the start, not the end, of the
\* match before it (matches[i - 1].0 for matches[i - 1].1).
RECURSIVE AfterRecords_from_start(_, _)
AfterRecords_from_start(matches, i) ==
    IF i = 0 THEN <<>>
    ELSE LET rec_start == IF i = 1 THEN 0 ELSE matches[i - 1][1]
         IN  <<<<rec_start, matches[i][2] - rec_start>>>>
             \o AfterRecords_from_start(matches, i - 1)

\* Vec<(start, len)> of tac_regex_separator: the records in emission order.
RECURSIVE AfterRecords(_, _)
AfterRecords(matches, i) ==
    IF i = 0 THEN <<>>
    ELSE LET rec_start == IF i = 1 THEN 0 ELSE matches[i - 1][2]
         IN  <<<<rec_start, matches[i][2] - rec_start>>>>
             \o AfterRecords(matches, i - 1)

\* Mutant of BeforeRecords: a record ends at the end, not the start, of the
\* match after it (matches[i + 1].1 for matches[i + 1].0).
RECURSIVE BeforeRecords_to_end(_, _, _)
BeforeRecords_to_end(matches, i, len) ==
    IF i = 0 THEN <<>>
    ELSE LET start == matches[i][1]
             stop  == IF i < Len(matches) THEN matches[i + 1][2] ELSE len
         IN  <<<<start, stop - start>>>> \o BeforeRecords_to_end(matches, i - 1, len)

RECURSIVE BeforeRecords(_, _, _)
BeforeRecords(matches, i, len) ==
    IF i = 0 THEN <<>>
    ELSE LET start == matches[i][1]
             stop  == IF i < Len(matches) THEN matches[i + 1][1] ELSE len
         IN  <<<<start, stop - start>>>> \o BeforeRecords(matches, i - 1, len)

\* Mutant of regex_records: After mode forgets the record after the last
\* match.
regex_records_no_trailing(matches, bef, len) ==
    IF ~bef
    THEN AfterRecords(matches, Len(matches))
    ELSE BeforeRecords(matches, Len(matches), len)
         \o (IF matches[1][1] > 0 THEN <<<<0, matches[1][1]>>>> ELSE <<>>)

\* Mutant of regex_records: the records in the order of the buffer.
regex_records_ascending(matches, bef, len) ==
    Reverse(IF ~bef
            THEN LET last_end == matches[Len(matches)][2]
                 IN  (IF last_end < len THEN <<<<last_end, len - last_end>>>> ELSE <<>>)
                     \o AfterRecords(matches, Len(matches))
            ELSE BeforeRecords(matches, Len(matches), len)
                 \o (IF matches[1][1] > 0 THEN <<<<0, matches[1][1]>>>> ELSE <<>>))

regex_records(matches, bef, len) ==
    IF ~bef
    THEN LET last_end == matches[Len(matches)][2]
         IN  (IF last_end < len THEN <<<<last_end, len - last_end>>>> ELSE <<>>)
             \o AfterRecords(matches, Len(matches))
    ELSE BeforeRecords(matches, Len(matches), len)
         \o (IF matches[1][1] > 0 THEN <<<<0, matches[1][1]>>>> ELSE <<>>)

\* Mutant of ReverseSegments: the segment after the last separator is left
\* as the whole-buffer reversal made it.
RECURSIVE ReverseSegments_skip_last(_, _)
ReverseSegments_skip_last(sub, sep) ==
    LET ps == memchr_iter(sep, sub)
    IN  IF ps = <<>> THEN sub
        ELSE Reverse(Slice(sub, 0, ps[1])) \o <<sep>>
             \o ReverseSegments_skip_last(Slice(sub, ps[1] + 1, Len(sub)), sep)

\* Steps 1 and 3 of tac_bytes_owned: the buffer reversed as a whole, then
\* every separator-delimited segment of data[1..] reversed again.
RECURSIVE ReverseSegments(_, _)
ReverseSegments(sub, sep) ==
    LET ps == memchr_iter(sep, sub)
    IN  IF ps = <<>> THEN Reverse(sub)
        ELSE Reverse(Slice(sub, 0, ps[1])) \o <<sep>>
             \o ReverseSegments(Slice(sub, ps[1] + 1, Len(sub)), sep)

\* Mutant of reverse_in_place: step 3, the reversal of each record, left out.
reverse_whole_only(d, sep) == Reverse(d)

reverse_in_place(d, sep) ==
    LET r == Reverse(d)
    IN  <<r[1]>> \o ReverseSegments(Tail(r), sep)

\* ------------------------------------------------------------------- state

VARIABLES
    entry,      \* the public function called
    data,       \* the caller's buffer
    separator,  \* the separator bytes (one byte for tac_bytes / tac_bytes_owned)
    pattern,    \* the pattern of tac_regex_separator
    before,     \* the attachment mode
    pc,         \* where the call stands
    positions,  \* Vec<usize> of the locator
    matches,    \* Vec<(usize, usize)> of find_regex_matches_backward
    records,    \* Vec<(usize, usize)> of tac_regex_separator
    idx,        \* how many entries of positions / records are still to visit
    end,        \* the loop variable `end`
    bw,         \* the BufWriter: [active, buf]
    cur,        \* the bytes of the write_all in progress not yet accepted
    ret,        \* where the bw.write_all in progress returns to
    result,     \* what the call returns: [kind, id]
    sink,       \* every byte the sink has accepted
    flushed,    \* the sink's flush() has been called
    faults,     \* sink answers other than a full write still allowed
    data0,      \* history: the buffer as the caller passed it
    spans,      \* history: the [start, end) of every write_all the engine issued
    wlog,       \* history: every write() on the sink, [offer, kind, n]
    round,      \* history: 1, or 2 in a call fed with the output of the first
    first       \* history: the buffer of the first call

\* parse_ranges
VARIABLES
    list,        \* the LIST argument (`spec` in the source), a sequence of characters
    cut_pc,      \* where the call of parse_ranges stands
    parts,       \* the parts of spec.split(',') not yet visited
    ranges,      \* Vec<Range> `ranges`
    merged,      \* Vec<Range> `merged`
    cut_i,       \* how many entries of ranges[1..] the merge loop has visited
    cut_result,  \* what parse_ranges returns: "pending", "Ok" or the error
    items        \* history: the items the LIST was written from

cut_vars == <<list, cut_pc, parts, ranges, merged, cut_i, cut_result, items>>

\* cut_fields
VARIABLES
    f_line,        \* `line`
    f_delim,       \* `delim`
    f_ranges,      \* `ranges`
    f_complement,  \* `complement`
    f_odelim,      \* `output_delim`
    f_suppress,    \* `suppress_no_delim`
    f_pc,          \* where the call of cut_fields stands
    f_iter,        \* the delimiter offsets memchr_iter has still to yield
    field_num,     \* `field_num`
    field_start,   \* `field_start`
    first_output,  \* `first_output`
    f_out          \* the bytes written to `out`

fld_vars == <<f_line, f_delim, f_ranges, f_complement, f_odelim, f_suppress, f_pc,
              f_iter, field_num, field_start, first_output, f_out>>

\* find_regex_matches_backward, step by step
VARIABLES
    s_data,     \* `data`
    s_re,       \* `re`
    s_pc,       \* where the call stands
    past_end,   \* `past_end`
    s_pos,      \* `pos`
    found,      \* `found`
    s_matches,  \* `matches`
    s_log       \* history: [bound, pos, stop] of every match pushed

scan_vars == <<s_data, s_re, s_pc, past_end, s_pos, found, s_matches, s_log>>

\* comm
VARIABLES
    c_data1,          \* `data1`
    c_data2,          \* `data2`
    c_cfg,            \* `config`
    c_pc,             \* where the call of comm stands
    lines1,           \* `lines1`
    lines2,           \* `lines2`
    i1,               \* `i1`
    i2,               \* `i2`
    count1,           \* `count1`
    count2,           \* `count2`
    count3,           \* `count3`
    had_order_error,  \* `had_order_error`
    warned1,          \* `warned1`
    warned2,          \* `warned2`
    c_buf,            \* `buf`
    c_out,            \* the bytes written to `out`
    c_err,            \* the messages printed on standard error
    c_ret,            \* "pending", or "Ok" once a CommResult is returned
    c_log,            \* history: [col, line] of every line classified, in order
                      \* (twin: the line of file 2 found equal, in column 3)
    c_src             \* history: the lines the two files were written from

comm_vars == <<c_data1, c_data2, c_cfg, c_pc, lines1, lines2, i1, i2, count1, count2,
               count3, had_order_error, warned1, warned2, c_buf, c_out, c_err, c_ret,
               c_log, c_src>>

\* read_file_for_tac
VARIABLES
    r_type,           \* metadata.file_type(): "file" or "fifo"
    r_len,            \* `len`: metadata.len()
    r_content,        \* the bytes a reader of the file gets before end of file
    r_pc,             \* where the call stands
    r_buf,            \* `buf`
    r_total,          \* `total`
    r_irq,            \* reads interrupted so far
    r_ret,            \* "pending", "Ok" or "Err"
    r_out             \* the data returned

read_vars == <<r_type, r_len, r_content, r_pc, r_buf, r_total, r_irq, r_ret, r_out>>

\* ftac: main and run
VARIABLES
    d_args,           \* cli.files: what reading and reversing each one comes to
    d_stdin,          \* the same for standard input
    files,            \* `files`
    d_pc,             \* where the process stands
    d_k,              \* files the loop of run is done with
    had_error,        \* `had_error`
    d_exit,           \* "none", or the exit status of the process
    d_log             \* history: the outcome of every file the loop took up

drv_vars == <<d_args, d_stdin, files, d_pc, d_k, had_error, d_exit, d_log>>

\* base64: encode_to_writer and encode_stream on the same input
VARIABLES
    b_data,           \* the input
    wrap_col,         \* `wrap_col`
    b_pc,             \* where the two calls stand
    w_rest,           \* encode_wrapped: the input not yet taken by data.chunks
    w_out,            \* the bytes encode_to_writer wrote
    w_ret,            \* "pending", "Ok" or "panic"
    st_rest,          \* encode_stream: what the reader has not delivered yet
    col,              \* `col`
    st_bw,            \* the buffer of the BufWriter `out`
    st_out,           \* the bytes that reached `writer`
    st_ret            \* "pending" or "Ok"

b64_vars == <<b_data, wrap_col, b_pc, w_rest, w_out, w_ret, st_rest, col, st_bw, st_out,
              st_ret>>

\* The variables of the record-reversal engine.
tac_vars == <<entry, data, separator, pattern, before, pc, positions, matches, records,
              idx, end, bw, cur, ret, result, sink, flushed, faults, data0, spans,
              wlog, round, first>>

vars == <<tac_vars, cut_vars, fld_vars, scan_vars, comm_vars, read_vars, drv_vars, b64_vars>>

\* The variables of everything but the record-reversal engine, but
\* parse_ranges, but cut_fields.
not_tac == <<cut_vars, fld_vars, scan_vars, comm_vars, read_vars, drv_vars, b64_vars>>

not_cut == <<tac_vars, fld_vars, scan_vars, comm_vars, read_vars, drv_vars, b64_vars>>

not_fld == <<tac_vars, cut_vars, scan_vars, comm_vars, read_vars, drv_vars, b64_vars>>

not_scan == <<tac_vars, cut_vars, fld_vars, comm_vars, read_vars, drv_vars, b64_vars>>

not_comm == <<tac_vars, cut_vars, fld_vars, scan_vars, read_vars, drv_vars, b64_vars>>

not_read == <<tac_vars, cut_vars, fld_vars, scan_vars, comm_vars, drv_vars, b64_vars>>

not_drv == <<tac_vars, cut_vars, fld_vars, scan_vars, comm_vars, read_vars, b64_vars>>

not_b64 == <<tac_vars, cut_vars, fld_vars, scan_vars, comm_vars, read_vars, drv_vars>>

\* What no step of an engine call changes: its arguments, the history of
\* the first call, and the state of the other components.
inputs == <<entry, separator, pattern, before, data0, round, first, not_tac>>

Res(kind, id) == [kind |-> kind, id |-> id]

Pending == Res("pending", 0)

OkRes == Res("Ok", 0)

NoBw == [active |-> FALSE, buf |-> <<>>]

\* The io::ErrorKind values a sink's write() answers with in the model.
ErrKinds == {"Interrupted", "BrokenPipe", "Other"}

\* No engine call is under way.
TacIdle ==
    /\ entry = "none"
    /\ data = <<>>
    /\ separator = <<>>
    /\ pattern = NoPattern
    /\ before = FALSE
    /\ pc = "idle"
    /\ positions = <<>>
    /\ matches = <<>>
    /\ records = <<>>
    /\ idx = 0
    /\ end = 0
    /\ bw = NoBw
    /\ cur = <<>>
    /\ ret = "none"
    /\ result = Pending
    /\ sink = <<>>
    /\ flushed = FALSE
    /\ faults = 0
    /\ data0 = <<>>
    /\ spans = <<>>
    /\ wlog = <<>>
    /\ round = 1
    /\ first = <<>>

\* No call of parse_ranges is under way.
CutIdle ==
    /\ list = <<>>
    /\ cut_pc = "idle"
    /\ parts = <<>>
    /\ ranges = <<>>
    /\ merged = <<>>
    /\ cut_i = 0
    /\ cut_result = "pending"
    /\ items = <<>>

\* No call of cut_fields is under way.
FldIdle ==
    /\ f_line = <<>>
    /\ f_delim = 0
    /\ f_ranges = <<>>
    /\ f_complement = FALSE
    /\ f_odelim = <<>>
    /\ f_suppress = FALSE
    /\ f_pc = "idle"
    /\ f_iter = <<>>
    /\ field_num = 0
    /\ field_start = 0
    /\ first_output = FALSE
    /\ f_out = <<>>

\* No stepwise call of find_regex_matches_backward is under way.
ScanIdle ==
    /\ s_data = <<>>
    /\ s_re = NoPattern
    /\ s_pc = "idle"
    /\ past_end = 0
    /\ s_pos = 0
    /\ found = FALSE
    /\ s_matches = <<>>
    /\ s_log = <<>>

\* CommConfig; zero_terminated and output_delimiter keep their defaults.
CommConfig(s1, s2, s3, ci, oc, total) ==
    [suppress_col1 |-> s1, suppress_col2 |-> s2, suppress_col3 |-> s3,
     case_insensitive |-> ci, order_check |-> oc, total |-> total]

\* No call of comm is under way.
CommIdle ==
    /\ c_data1 = <<>>
    /\ c_data2 = <<>>
    /\ c_cfg = CommConfig(FALSE, FALSE, FALSE, FALSE, "Default", FALSE)
    /\ c_pc = "idle"
    /\ lines1 = <<>>
    /\ lines2 = <<>>
    /\ i1 = 0
    /\ i2 = 0
    /\ count1 = 0
    /\ count2 = 0
    /\ count3 = 0
    /\ had_order_error = FALSE
    /\ warned1 = FALSE
    /\ warned2 = FALSE
    /\ c_buf = <<>>
    /\ c_out = <<>>
    /\ c_err = <<>>
    /\ c_ret = "pending"
    /\ c_log = <<>>
    /\ c_src = <<>>

\* No call of read_file_for_tac is under way.
ReadIdle ==
    /\ r_type = "file"
    /\ r_len = 0
    /\ r_content = <<>>
    /\ r_pc = "idle"
    /\ r_buf = <<>>
    /\ r_total = 0
    /\ r_irq = 0
    /\ r_ret = "pending"
    /\ r_out = <<>>

\* No ftac process is running.
DriverIdle ==
    /\ d_args = <<>>
    /\ d_stdin = "Ok"
    /\ files = <<>>
    /\ d_pc = "idle"
    /\ d_k = 0
    /\ had_error = FALSE
    /\ d_exit = "none"
    /\ d_log = <<>>

\* No base64 encoder is running.
Base64Idle ==
    /\ b_data = <<>>
    /\ wrap_col = 0
    /\ b_pc = "idle"
    /\ w_rest = <<>>
    /\ w_out = <<>>
    /\ w_ret = "pending"
    /\ st_rest = <<>>
    /\ col = 0
    /\ st_bw = <<>>
    /\ st_out = <<>>
    /\ st_ret = "pending"

\* Every component but c is at rest.
IdleExcept(c) ==
    /\ c # "read" => ReadIdle
    /\ c # "ftac" => DriverIdle
    /\ c # "base64" => Base64Idle
    /\ c # "comm" => CommIdle
    /\ c # "scan" => ScanIdle
    /\ c # "tac" => TacIdle
    /\ c # "cut" => CutIdle
    /\ c # "fld" => FldIdle

\* --------------------------------------------------------------- the calls

Patterns ==
    {Pat(op, <<b>>) : op \in {"lit", "plus", "star"}, b \in Alphabet}
        \cup {Pat("str", s) : s \in SeqsOf(Alphabet, 2, 2)}
        \cup {Pat("bad", <<>>)}

Buffers == SeqsOf(Alphabet, 0, MaxLen)

Call(e, d, s, p, b) ==
    [entry |-> e, data |-> d, separator |-> s, pattern |-> p, before |-> b]

\* The scenarios of the specification's section 8 and of the comments of
\* tac_bytes_owned: "a\nb\nc\n", "a\nb\nc", "\na\nb", "x::y::z", "A\nB", and
\* two buffers whose records differ: "ab\nc\n", "x::y::".
Scenarios ==
    {Call(e, d, <<10>>, NoPattern, FALSE) :
        e \in {"tac_bytes", "tac_bytes_owned"},
        d \in {<<97, 10, 98, 10, 99, 10>>, <<97, 10, 98, 10, 99>>,
               <<65, 10, 66>>, <<97, 98, 10, 99, 10>>}}
    \cup {Call("tac_bytes", <<10, 97, 10, 98>>, <<10>>, NoPattern, TRUE)}
    \cup {Call("tac_string_separator", d, <<58, 58>>, NoPattern, FALSE) :
            d \in {<<120, 58, 58, 121, 58, 58, 122>>, <<120, 58, 58, 121, 58, 58>>}}

Calls ==
    {Call(e, d, s, NoPattern, b) :
        e \in {"tac_bytes", "tac_bytes_owned"}, d \in Buffers,
        s \in SeqsOf(Alphabet, 1, 1), b \in BOOLEAN}
    \cup {Call("tac_string_separator", d, s, NoPattern, b) :
        d \in Buffers, s \in SeqsOf(Alphabet, 1, MaxSepLen), b \in BOOLEAN}
    \cup {Call("tac_regex_separator", d, <<>>, p, b) :
        d \in Buffers, p \in Patterns, b \in BOOLEAN}
    \cup Scenarios

Init ==
    \E c \in Calls :
        /\ entry = c.entry
        /\ data = c.data
        /\ separator = c.separator
        /\ pattern = c.pattern
        /\ before = c.before
        /\ pc = "start"
        /\ positions = <<>>
        /\ matches = <<>>
        /\ records = <<>>
        /\ idx = 0
        /\ end = 0
        /\ bw = NoBw
        /\ cur = <<>>
        /\ ret = "none"
        /\ result = Pending
        /\ sink = <<>>
        /\ flushed = FALSE
        /\ faults = MaxFaults
        /\ data0 = c.data
        /\ spans = <<>>
        /\ wlog = <<>>
        /\ round = 1
        /\ first = c.data
        /\ IdleExcept("tac")


\* ------------------------------------------------------------- the engine

\* The function returns r without having created a BufWriter.
Return(r) ==
    /\ result' = r
    /\ pc' = "done"

\* separator.len() (1 for a byte separator).
sep_len == Len(separator)

\* Mutant of BwWriteAll: a span that does not fit is handled without the
\* buffer being flushed first.
BwWriteAll_no_flush(span, k) ==
    LET spare == BUF_SIZE - Len(bw.buf)
    IN  IF Len(span) < spare
        THEN /\ bw' = [bw EXCEPT !.buf = @ \o span]
             /\ pc' = k
             /\ UNCHANGED <<cur, ret>>
        ELSE /\ cur' = span
             /\ ret' = k
             /\ pc' = "cold_write"
             /\ UNCHANGED bw

\* bw.write_all(span) of std::io::BufWriter, returning to k: a span shorter
\* than the spare capacity is copied into the buffer; otherwise
\* write_all_cold flushes the buffer first when the span does not fit.
BwWriteAll(span, k) ==
    LET spare == BUF_SIZE - Len(bw.buf)
    IN  IF Len(span) < spare
        THEN /\ bw' = [bw EXCEPT !.buf = @ \o span]
             /\ pc' = k
             /\ UNCHANGED <<cur, ret>>
        ELSE /\ cur' = span
             /\ ret' = k
             /\ pc' = IF Len(span) > spare THEN "cold_flush" ELSE "cold_write"
             /\ UNCHANGED bw

\* Mutant of EnterZerocopy: without a separator the function returns Ok
\* without writing the buffer.
EnterZerocopy_no_write(pos) ==
    /\ positions' = pos
    /\ IF pos = <<>>
       THEN /\ result' = Res("Ok", 0)
            /\ pc' = "done"
            /\ UNCHANGED <<bw, idx, end, cur, spans>>
       ELSE /\ bw' = [active |-> TRUE, buf |-> <<>>]
            /\ end' = Len(data)
            /\ idx' = Len(pos)
            /\ pc' = "loop"
            /\ UNCHANGED <<cur, spans, result>>
    /\ UNCHANGED <<data, matches, records, ret, sink, flushed, faults,
                   wlog, inputs>>

\* The common opening of tac_bytes_zerocopy_after / _before and
\* tac_string_after / _before, pos being the locator's result: without a
\* separator `return out.write_all(data)`, else the BufWriter and the loop.
EnterZerocopy(pos) ==
    /\ positions' = pos
    /\ IF pos = <<>>
       THEN /\ cur' = data
            /\ spans' = Append(spans, <<0, Len(data)>>)
            /\ pc' = "direct"
            /\ UNCHANGED <<bw, idx, end>>
       ELSE /\ bw' = [active |-> TRUE, buf |-> <<>>]
            /\ end' = Len(data)
            /\ idx' = Len(pos)
            /\ pc' = "loop"
            /\ UNCHANGED <<cur, spans>>
    /\ UNCHANGED <<data, matches, records, ret, result, sink, flushed, faults,
                   wlog, inputs>>

ReturnEmpty ==
    /\ Return(OkRes)
    /\ UNCHANGED <<data, positions, matches, records, idx, end, bw, cur, ret,
                   sink, flushed, faults, spans, wlog, inputs>>

tac_bytes ==
    /\ pc = "start"
    /\ entry = "tac_bytes"
    /\ IF data = <<>> THEN ReturnEmpty
       ELSE EnterZerocopy(memchr_iter(separator[1], data))

tac_bytes_owned ==
    /\ pc = "start"
    /\ entry = "tac_bytes_owned"
    /\ IF data = <<>> THEN ReturnEmpty
       ELSE IF before \/ data[Len(data)] # separator[1]
       THEN EnterZerocopy(memchr_iter(separator[1], data))
       ELSE /\ data' = reverse_in_place(data, separator[1])
            /\ cur' = Tail(data')
            /\ spans' = Append(spans, <<1, Len(data)>>)
            /\ pc' = "owned1"
            /\ UNCHANGED <<positions, matches, records, idx, end, bw, ret,
                           result, sink, flushed, faults, wlog, inputs>>

tac_string_separator ==
    /\ pc = "start"
    /\ entry = "tac_string_separator"
    /\ IF data = <<>> THEN ReturnEmpty
       ELSE IF Len(separator) = 1
       THEN EnterZerocopy(memchr_iter(separator[1], data))
       ELSE EnterZerocopy(find_iter(data, separator))

tac_regex_separator ==
    /\ pc = "start"
    /\ entry = "tac_regex_separator"
    /\ IF data = <<>> THEN ReturnEmpty
       ELSE IF ~Compiles(pattern)
       THEN /\ Return(Res("InvalidInput", 0))
            /\ UNCHANGED <<data, positions, matches, records, idx, end, bw, cur,
                           ret, sink, flushed, faults, spans, wlog, inputs>>
       ELSE LET ms == find_regex_matches_backward(data, pattern)
            IN  /\ matches' = ms
                /\ IF ms = <<>>
                   THEN /\ cur' = data
                        /\ spans' = Append(spans, <<0, Len(data)>>)
                        /\ pc' = "direct"
                        /\ UNCHANGED <<records, bw, idx>>
                   ELSE /\ records' = regex_records(ms, before, Len(data))
                        /\ bw' = [active |-> TRUE, buf |-> <<>>]
                        /\ idx' = Len(records')
                        /\ pc' = "rloop"
                        /\ UNCHANGED <<cur, spans>>
                /\ UNCHANGED <<data, positions, end, ret, result, sink, flushed,
                               faults, wlog, inputs>>

\* One iteration of `for &pos in positions.iter().rev()`, or its end.
LoopStep ==
    /\ pc = "loop"
    /\ IF idx = 0
       THEN /\ pc' = "prefix"
            /\ UNCHANGED <<idx, end, bw, cur, ret, spans>>
       ELSE LET pos   == positions[idx]
                start == IF before THEN pos ELSE pos + sep_len
            IN  /\ IF start < end
                   THEN /\ BwWriteAll(Slice(data, start, end), "loop")
                        /\ spans' = Append(spans, <<start, end>>)
                   ELSE UNCHANGED <<pc, bw, cur, ret, spans>>
                /\ end' = start
                /\ idx' = idx - 1
    /\ UNCHANGED <<data, positions, matches, records, result, sink, flushed,
                   faults, wlog, inputs>>

\* Mutant of Prefix: the function returns Ok(()) without bw.flush(), leaving
\* the buffered bytes to the BufWriter's Drop.
Prefix_no_flush ==
    /\ pc = "prefix"
    /\ result' = OkRes
    /\ IF end > 0
       THEN /\ BwWriteAll(Slice(data, 0, end), "drop")
            /\ spans' = Append(spans, <<0, end>>)
       ELSE /\ pc' = "drop"
            /\ UNCHANGED <<bw, cur, ret, spans>>
    /\ UNCHANGED <<data, positions, matches, records, idx, end, sink,
                   flushed, faults, wlog, inputs>>

\* `if end > 0 { bw.write_all(&data[..end])?; }` and on to bw.flush().
Prefix ==
    /\ pc = "prefix"
    /\ IF end > 0
       THEN /\ BwWriteAll(Slice(data, 0, end), "fl_flush")
            /\ spans' = Append(spans, <<0, end>>)
       ELSE /\ pc' = "fl_flush"
            /\ UNCHANGED <<bw, cur, ret, spans>>
    /\ UNCHANGED <<data, positions, matches, records, idx, end, result, sink,
                   flushed, faults, wlog, inputs>>

\* One iteration of `for &(start, len) in &records`, or its end.
RegexLoopStep ==
    /\ pc = "rloop"
    /\ IF idx = 0
       THEN /\ pc' = "fl_flush"
            /\ UNCHANGED <<idx, bw, cur, ret, spans>>
       ELSE LET rec == records[Len(records) - idx + 1]
            IN  /\ IF rec[2] > 0
                   THEN /\ BwWriteAll(Slice(data, rec[1], rec[1] + rec[2]), "rloop")
                        /\ spans' = Append(spans, <<rec[1], rec[1] + rec[2]>>)
                   ELSE UNCHANGED <<pc, bw, cur, ret, spans>>
                /\ idx' = idx - 1
    /\ UNCHANGED <<data, positions, matches, records, end, result, sink,
                   flushed, faults, wlog, inputs>>

\* The second half of BufWriter::write_all_cold: a span as long as the
\* capacity goes to the sink directly, a shorter one into the buffer.
ColdWrite ==
    /\ pc = "cold_write"
    /\ IF Len(cur) >= BUF_SIZE
       THEN /\ pc' = "cold_direct"
            /\ UNCHANGED <<bw, cur>>
       ELSE /\ bw' = [bw EXCEPT !.buf = @ \o cur]
            /\ cur' = <<>>
            /\ pc' = ret
    /\ UNCHANGED <<data, positions, matches, records, idx, end, ret, result,
                   sink, flushed, faults, spans, wlog, inputs>>

\* ------------------------------------------------------- writes on the sink

\* BufWriter::flush_buf is running: in write_all_cold, in flush(), in Drop.
FlushPcs == {"cold_flush", "fl_flush", "drop"}

\* The sink's write_all is running: the bypass of write_all_cold, the
\* whole-buffer write without separator, the two writes of tac_bytes_owned.
WriteAllPcs == {"cold_direct", "direct", "owned1", "owned2"}

\* The bytes the loop in progress has still to hand to the sink.
Remaining == IF pc \in FlushPcs THEN bw.buf ELSE cur

\* The loop in progress ends with the error e: Drop ignores it; elsewhere
\* `?` returns it, through the BufWriter's Drop when there is one.
Fail(e) ==
    IF pc = "drop"
    THEN /\ pc' = "done"
         /\ UNCHANGED result
    ELSE /\ result' = e
         /\ pc' = IF bw.active THEN "drop" ELSE "done"

\* Mutant of WriteAnswer: write() where write_all is meant, a short write
\* taken for a whole one.
WriteAnswer_no_resume(kind, n) ==
    CASE kind = "Ok" /\ n > 0 ->
            /\ IF pc \in FlushPcs
               THEN /\ bw' = [bw EXCEPT !.buf = <<>>]
                    /\ UNCHANGED cur
               ELSE /\ cur' = <<>>
                    /\ UNCHANGED bw
            /\ UNCHANGED <<pc, result>>
      [] kind = "Ok" /\ n = 0 ->
            /\ Fail(Res("WriteZero", 0))
            /\ UNCHANGED <<bw, cur>>
      [] kind = "Interrupted" ->
            UNCHANGED <<pc, result, bw, cur>>
      [] OTHER ->
            /\ Fail(Res(kind, Len(wlog) + 1))
            /\ UNCHANGED <<bw, cur>>

\* What the write loops (Write::write_all, BufWriter::flush_buf) do with the
\* answer of one write(): Ok(n) consumes n bytes, Ok(0) is WriteZero,
\* Interrupted is tried again, any other error ends the loop.
WriteAnswer(kind, n) ==
    CASE kind = "Ok" /\ n > 0 ->
            /\ IF pc \in FlushPcs
               THEN /\ bw' = [bw EXCEPT !.buf = SubSeq(@, n + 1, Len(@))]
                    /\ UNCHANGED cur
               ELSE /\ cur' = SubSeq(cur, n + 1, Len(cur))
                    /\ UNCHANGED bw
            /\ UNCHANGED <<pc, result>>
      [] kind = "Ok" /\ n = 0 ->
            /\ Fail(Res("WriteZero", 0))
            /\ UNCHANGED <<bw, cur>>
      [] kind = "Interrupted" ->
            UNCHANGED <<pc, result, bw, cur>>
      [] OTHER ->
            /\ Fail(Res(kind, Len(wlog) + 1))
            /\ UNCHANGED <<bw, cur>>

\* One write() on the sink and the sink's answer.
SinkWrite ==
    /\ pc \in FlushPcs \cup WriteAllPcs
    /\ Remaining # <<>>
    /\ \E kind \in {"Ok"} \cup ErrKinds, n \in 0..Len(Remaining) :
        /\ kind # "Ok" => n = 0
        /\ (kind # "Ok" \/ n < Len(Remaining)) => faults > 0
        /\ faults' = IF kind = "Ok" /\ n = Len(Remaining) THEN faults ELSE faults - 1
        /\ sink' = sink \o SubSeq(Remaining, 1, n)
        /\ wlog' = Append(wlog, [offer |-> Remaining, kind |-> kind, n |-> n])
        /\ WriteAnswer(kind, n)
    /\ UNCHANGED <<data, positions, matches, records, idx, end, ret, flushed,
                   spans, inputs>>

\* The write loop in progress has nothing left to write.
IoDone ==
    /\ pc \in FlushPcs \cup WriteAllPcs
    /\ Remaining = <<>>
    /\ CASE pc = "cold_flush"  -> pc' = "cold_write" /\ UNCHANGED <<result, cur, spans>>
         [] pc = "fl_flush"    -> pc' = "fl_inner" /\ UNCHANGED <<result, cur, spans>>
         [] pc = "drop"        -> pc' = "done" /\ UNCHANGED <<result, cur, spans>>
         [] pc = "cold_direct" -> pc' = ret /\ UNCHANGED <<result, cur, spans>>
         [] pc = "direct"      -> Return(OkRes) /\ UNCHANGED <<cur, spans>>
         [] pc = "owned1"      -> /\ pc' = "owned2"
                                  /\ cur' = <<data[1]>>
                                  /\ spans' = Append(spans, <<0, 1>>)
                                  /\ UNCHANGED result
         [] pc = "owned2"      -> Return(OkRes) /\ UNCHANGED <<cur, spans>>
    /\ UNCHANGED <<data, positions, matches, records, idx, end, bw, ret, sink,
                   flushed, faults, wlog, inputs>>

\* The tail of bw.flush(): the sink's own flush(), whose result the function
\* returns; the BufWriter is dropped next.
InnerFlush ==
    /\ pc = "fl_inner"
    /\ flushed' = TRUE
    /\ \E kind \in {"Ok", "BrokenPipe", "Other"} :
        /\ kind # "Ok" => faults > 0
        /\ faults' = IF kind = "Ok" THEN faults ELSE faults - 1
        /\ result' = Res(kind, 0)
    /\ pc' = "drop"
    /\ UNCHANGED <<data, positions, matches, records, idx, end, bw, cur, ret,
                   sink, spans, wlog, inputs>>

\* A second call on the output of a successful first one, same separator and
\* mode.
Again ==
    /\ pc = "done"
    /\ round = 1
    /\ result = OkRes
    /\ round' = 2
    /\ data' = sink
    /\ data0' = sink
    /\ pc' = "start"
    /\ positions' = <<>>
    /\ matches' = <<>>
    /\ records' = <<>>
    /\ idx' = 0
    /\ end' = 0
    /\ bw' = NoBw
    /\ cur' = <<>>
    /\ ret' = "none"
    /\ result' = Pending
    /\ sink' = <<>>
    /\ flushed' = FALSE
    /\ spans' = <<>>
    /\ wlog' = <<>>
    /\ UNCHANGED <<entry, separator, pattern, before, faults, first, not_tac>>

Next ==
    \/ tac_bytes
    \/ tac_bytes_owned
    \/ tac_string_separator
    \/ tac_regex_separator
    \/ LoopStep
    \/ Prefix
    \/ RegexLoopStep
    \/ ColdWrite
    \/ SinkWrite
    \/ IoDone
    \/ InnerFlush

Spec == Init /\ [][Next]_vars

NextTwice == Next \/ Again

SpecTwice == Init /\ [][NextTwice]_vars


\* ------------------------------------------------------------ parse_ranges
\* A LIST is a sequence of characters; a Range is [start, end], positions
\* numbered from 1.

Digits == <<"0", "1", "2", "3", "4", "5", "6", "7", "8", "9">>

IsDigit(c) == \E n \in 1..10 : Digits[n] = c

DigitVal(c) == (CHOOSE n \in 1..10 : Digits[n] = c) - 1

\* str::trim_start
RECURSIVE trim_start(_)
trim_start(s) == IF s # <<>> /\ Head(s) = " " THEN trim_start(Tail(s)) ELSE s

\* str::trim
trim(s) == Reverse(trim_start(Reverse(trim_start(s))))

\* str::find(c): the offset of the first c, or -1 for None.
find(s, c) ==
    LET S == {k \in 1..Len(s) : s[k] = c}
    IN  IF S = {} THEN -1 ELSE Min(S) - 1

\* str::split(c): the parts between the occurrences of c; one empty part for
\* the empty string.
RECURSIVE split(_, _)
split(s, c) ==
    LET i == find(s, c)
    IN  IF i = -1 THEN <<s>>
        ELSE <<Slice(s, 0, i)>> \o split(Slice(s, i + 1, Len(s)), c)

\* The digit loop of usize::from_str: checked multiplication and addition,
\* -1 for an invalid digit or an overflow.
RECURSIVE ParseDigits(_, _)
ParseDigits(s, acc) ==
    IF s = <<>> THEN acc
    ELSE IF ~IsDigit(Head(s)) THEN -1
    ELSE LET v == acc * 10 + DigitVal(Head(s))
         IN  IF v > USIZE_MAX THEN -1 ELSE ParseDigits(Tail(s), v)

\* str::parse::<usize>(): an optional "+" and at least one digit; -1 for Err.
parse_usize(s) ==
    IF s = <<>> THEN -1
    ELSE LET t == IF Head(s) = "+" THEN Tail(s) ELSE s
         IN  IF t = <<>> THEN -1 ELSE ParseDigits(t, 0)

Range(start, stop) == [start |-> start, end |-> stop]

PartOk(start, stop) == [ok |-> TRUE, start |-> start, end |-> stop, msg |-> "Ok"]

PartErr(msg) == [ok |-> FALSE, start |-> 0, end |-> 0, msg |-> msg]

\* Mutant of parse_part: a single position is not compared with 0.
parse_part_no_zero_check(part) ==
    LET i == find(part, "-")
    IN  IF i # -1
        THEN LET left  == Slice(part, 0, i)
                 right == Slice(part, i + 1, Len(part))
                 start == IF left = <<>> THEN 1 ELSE parse_usize(left)
                 stop  == IF right = <<>> THEN USIZE_MAX ELSE parse_usize(right)
             IN  IF start = -1 \/ stop = -1 THEN PartErr("invalid range")
                 ELSE IF start = 0 THEN PartErr("numbered from 1")
                 ELSE IF start > stop THEN PartErr("invalid decreasing range")
                 ELSE PartOk(start, stop)
        ELSE LET n == parse_usize(part)
             IN  IF n = -1 THEN PartErr("invalid field")
                 ELSE PartOk(n, n)

\* The body of the loop of parse_ranges for one trimmed, non-empty part.
parse_part(part) ==
    LET i == find(part, "-")
    IN  IF i # -1
        THEN LET left  == Slice(part, 0, i)
                 right == Slice(part, i + 1, Len(part))
                 start == IF left = <<>> THEN 1 ELSE parse_usize(left)
                 stop  == IF right = <<>> THEN USIZE_MAX ELSE parse_usize(right)
             IN  IF start = -1 \/ stop = -1 THEN PartErr("invalid range")
                 ELSE IF start = 0 THEN PartErr("numbered from 1")
                 ELSE IF start > stop THEN PartErr("invalid decreasing range")
                 ELSE PartOk(start, stop)
        ELSE LET n == parse_usize(part)
             IN  IF n = -1 THEN PartErr("invalid field")
                 ELSE IF n = 0 THEN PartErr("numbered from 1")
                 ELSE PartOk(n, n)

\* The key (r.start, r.end) of a is at most that of b.
KeyLe(a, b) == a.start < b.start \/ (a.start = b.start /\ a.end <= b.end)

RECURSIVE InsertSorted(_, _)
InsertSorted(r, rs) ==
    IF rs = <<>> THEN <<r>>
    ELSE IF KeyLe(r, Head(rs)) THEN <<r>> \o rs
    ELSE <<Head(rs)>> \o InsertSorted(r, Tail(rs))

\* ranges.sort_by_key(|r| (r.start, r.end))
RECURSIVE sort_by_key(_)
sort_by_key(rs) ==
    IF rs = <<>> THEN <<>> ELSE InsertSorted(Head(rs), sort_by_key(Tail(rs)))

\* Mutant of saturating_add: the sum wraps around.
saturating_add_wrapping(a, b) == (a + b) % (USIZE_MAX + 1)

\* usize::saturating_add
saturating_add(a, b) == IF a + b > USIZE_MAX THEN USIZE_MAX ELSE a + b

\* The body of the merge loop: r extends the last merged range or is pushed.
merge_one(m, r) ==
    LET last == m[Len(m)]
    IN  IF r.start <= saturating_add(last.end, 1)
        THEN [m EXCEPT ![Len(m)].end = IF r.end > last.end THEN r.end ELSE last.end]
        ELSE Append(m, r)

\* The numeral of n, one digit.
Num(n) == <<Digits[n + 1]>>

\* An item of a generated LIST: its text and what it is written to mean, the
\* positions lo..hi ("range"), nothing ("blank"), or an item of a kind
\* parse_ranges is to reject.
Item(text, lo, hi, kind) == [text |-> text, lo |-> lo, hi |-> hi, kind |-> kind]

Blank == Item(<<>>, 0, 0, "blank")

GoodItems ==
    {Item(Num(n), n, n, "range") : n \in 1..MaxPos}
    \cup {Item(Num(ab[1]) \o <<"-">> \o Num(ab[2]), ab[1], ab[2], "range") :
            ab \in {x \in (1..MaxPos) \X (1..MaxPos) : x[1] <= x[2]}}
    \cup {Item(Num(a) \o <<"-">>, a, USIZE_MAX, "range") : a \in 1..MaxPos}
    \cup {Item(<<"-">> \o Num(b), 1, b, "range") : b \in 1..MaxPos}
    \cup {Item(<<"-">>, 1, USIZE_MAX, "range"), Blank}

\* Items parse_ranges accepts in an unusual spelling: surrounded by blanks,
\* with a "+", with a leading zero, with USIZE_MAX written out.
OddItems ==
    {Item(<<" ", "2", " ">>, 2, 2, "range"),
     Item(<<"+", "2">>, 2, 2, "range"),
     Item(<<"0", "1">>, 1, 1, "range"),
     Item(<<"1", "-", "+", "2">>, 1, 2, "range"),
     Item(<<"2", "-">> \o Num(USIZE_MAX), 2, USIZE_MAX, "range"),
     Item(<<" ">>, 0, 0, "blank")}

BadKinds == {"zero", "decreasing", "nonnumeric", "overflow"}

BadItems ==
    {Item(t, 0, 0, "zero") :
        t \in {<<"0">>, <<"0", "-">>, <<"0", "-", "2">>, <<"0", "-", "0">>, <<"0", "0">>}}
    \cup {Item(Num(ab[1]) \o <<"-">> \o Num(ab[2]), 0, 0, "decreasing") :
            ab \in {x \in (1..MaxPos) \X (0..MaxPos) : x[1] > x[2]}}
    \cup {Item(<<"-", "0">>, 0, 0, "decreasing")}
    \cup {Item(t, 0, 0, "nonnumeric") :
            t \in {<<"x">>, <<"1", "x">>, <<"x", "-", "1">>, <<"1", "-", "x">>,
                   <<"1", "-", "2", "-", "3">>, <<"1", " ", "-", "2">>, <<"+">>,
                   <<"-", "-">>}}
    \cup {Item(t, 0, 0, "overflow") :
            t \in {<<"9">>, <<"9", "-">>, <<"1", "-", "9">>, <<"9", "9">>}}

\* The items put beside an odd or a bad one: "2", "1-3", nothing.
Companions ==
    {Item(<<"2">>, 2, 2, "range"), Item(<<"1", "-", "3">>, 1, 3, "range"), Blank}

Closed(a, b) == Item(Num(a) \o <<"-">> \o Num(b), a, b, "range")

Single(n) == Item(Num(n), n, n, "range")

\* The LISTs of src/src/cut/tests.rs ("1-3,2-5", "1-2,3-4", "1,3,5") and
\* LISTs of three items out of order: "5,1,3", "1-2,5,3-4", "2-,3,1",
\* "4-5,1,2-3".
CutScenarios ==
    {<<Closed(1, 3), Closed(2, 5)>>,
     <<Closed(1, 2), Closed(3, 4)>>,
     <<Single(1), Single(3), Single(5)>>,
     <<Single(5), Single(1), Single(3)>>,
     <<Closed(1, 2), Single(5), Closed(3, 4)>>,
     <<Item(<<"2", "-">>, 2, USIZE_MAX, "range"), Single(3), Single(1)>>,
     <<Closed(4, 5), Single(1), Closed(2, 3)>>}

CutLists ==
    SeqsOf(GoodItems, 0, MaxItems)
    \cup {<<o>> : o \in OddItems \cup BadItems}
    \cup {<<o, g>> : o \in OddItems \cup BadItems, g \in Companions}
    \cup {<<g, o>> : o \in OddItems \cup BadItems, g \in Companions}
    \cup CutScenarios

\* The texts of the items joined with ",".
RECURSIVE Join(_)
Join(its) ==
    IF its = <<>> THEN <<>>
    ELSE IF Len(its) = 1 THEN its[1].text
    ELSE its[1].text \o <<",">> \o Join(Tail(its))

InitCut ==
    \E l \in CutLists :
        /\ list = Join(l)
        /\ items = l
        /\ cut_pc = "start"
        /\ parts = <<>>
        /\ ranges = <<>>
        /\ merged = <<>>
        /\ cut_i = 0
        /\ cut_result = "pending"
        /\ IdleExcept("cut")

\* let mut ranges = Vec::new(); spec.split(',')
parse_ranges ==
    /\ cut_pc = "start"
    /\ parts' = split(list, ",")
    /\ cut_pc' = "parts"
    /\ UNCHANGED <<list, ranges, merged, cut_i, cut_result, items, not_cut>>

\* One iteration of `for part in spec.split(',')`: an empty part is skipped,
\* a valid one pushed, an invalid one returned as Err.
ParsePart ==
    /\ cut_pc = "parts"
    /\ parts # <<>>
    /\ LET part == trim(Head(parts))
           r    == parse_part(part)
       IN  IF part = <<>>
           THEN /\ parts' = Tail(parts)
                /\ UNCHANGED <<ranges, cut_pc, cut_result>>
           ELSE IF r.ok
           THEN /\ ranges' = Append(ranges, Range(r.start, r.end))
                /\ parts' = Tail(parts)
                /\ UNCHANGED <<cut_pc, cut_result>>
           ELSE /\ cut_result' = r.msg
                /\ cut_pc' = "done"
                /\ UNCHANGED <<ranges, parts>>
    /\ UNCHANGED <<list, merged, cut_i, items, not_cut>>

\* After the loop: Err for no range at all, else the sort and
\* `merged = vec![ranges[0].clone()]`.
SortRanges ==
    /\ cut_pc = "parts"
    /\ parts = <<>>
    /\ IF ranges = <<>>
       THEN /\ cut_result' = "you must specify a list"
            /\ cut_pc' = "done"
            /\ UNCHANGED <<ranges, merged>>
       ELSE /\ ranges' = sort_by_key(ranges)
            /\ merged' = <<ranges'[1]>>
            /\ cut_pc' = "merge"
            /\ UNCHANGED cut_result
    /\ UNCHANGED <<list, parts, cut_i, items, not_cut>>

\* One iteration of `for r in &ranges[1..]`.
MergeStep ==
    /\ cut_pc = "merge"
    /\ cut_i + 1 < Len(ranges)
    /\ merged' = merge_one(merged, ranges[cut_i + 2])
    /\ cut_i' = cut_i + 1
    /\ UNCHANGED <<list, cut_pc, parts, ranges, cut_result, items, not_cut>>

\* Ok(merged)
ReturnMerged ==
    /\ cut_pc = "merge"
    /\ cut_i + 1 = Len(ranges)
    /\ cut_result' = "Ok"
    /\ cut_pc' = "done"
    /\ UNCHANGED <<list, parts, ranges, merged, cut_i, items, not_cut>>

NextCut ==
    \/ parse_ranges
    \/ ParsePart
    \/ SortRanges
    \/ MergeStep
    \/ ReturnMerged

SpecCut == InitCut /\ [][NextCut]_vars

\* -------------------------------------------------------------- cut_fields

\* Mutant of in_ranges: the end of a range taken as exclusive.
RECURSIVE in_ranges_exclusive_end(_, _)
in_ranges_exclusive_end(rs, pos) ==
    IF rs = <<>> THEN FALSE
    ELSE IF pos < Head(rs).start THEN FALSE
    ELSE IF pos < Head(rs).end THEN TRUE
    ELSE in_ranges_exclusive_end(Tail(rs), pos)

\* in_ranges(ranges, pos): the ranges visited in order, FALSE as soon as one
\* starts after pos.
RECURSIVE in_ranges(_, _)
in_ranges(rs, pos) ==
    IF rs = <<>> THEN FALSE
    ELSE IF pos < Head(rs).start THEN FALSE
    ELSE IF pos <= Head(rs).end THEN TRUE
    ELSE in_ranges(Tail(rs), pos)

\* The lists parse_ranges returns: sorted, disjoint, not adjacent, with
\* bounds in 1..MaxPos + 1 and an end that may be USIZE_MAX.
RECURSIVE NormalizedFrom(_, _)
NormalizedFrom(lo, n) ==
    {<<>>} \cup
    (IF n = 0 THEN {}
     ELSE UNION {
            {<<Range(a, b)>> \o rest : rest \in NormalizedFrom(b + 2, n - 1)}
                \cup {<<Range(a, USIZE_MAX)>>} :
            a \in lo..(MaxPos + 1), b \in lo..(MaxPos + 1)} )

NormalizedLists ==
    {rs \in NormalizedFrom(1, MaxPos + 1) :
        rs # <<>> /\ \A k \in 1..Len(rs) : rs[k].start <= rs[k].end}

\* The lines cut: up to MaxLen bytes of ":", "a", "b".
Lines == SeqsOf({58, 97, 98}, 0, MaxLen)

FieldCall(l, d, rs, c, od, sp) ==
    [line |-> l, delim |-> d, ranges |-> rs, complement |-> c, odelim |-> od,
     suppress |-> sp]

\* The calls of src/src/cut/tests.rs: "a:b:c:d" with 2, 1,3, 2-4, -2, 3- and
\* the complement of 2; "a::c" with 2; "::c" with 1.
FieldScenarios ==
    {FieldCall(<<97, 58, 98, 58, 99, 58, 100>>, 58, rs, FALSE, <<58>>, FALSE) :
        rs \in {<<Range(2, 2)>>, <<Range(1, 1), Range(3, 3)>>, <<Range(2, 4)>>,
                <<Range(1, 2)>>, <<Range(3, USIZE_MAX)>>}}
    \cup {FieldCall(<<97, 58, 98, 58, 99, 58, 100>>, 58, <<Range(2, 2)>>, TRUE, <<58>>, FALSE),
          FieldCall(<<97, 58, 58, 99>>, 58, <<Range(2, 2)>>, FALSE, <<58>>, FALSE),
          FieldCall(<<58, 58, 99>>, 58, <<Range(1, 1)>>, FALSE, <<58>>, FALSE)}

FieldCalls ==
    {FieldCall(l, 58, rs, c, od, sp) :
        l \in Lines, rs \in NormalizedLists, c \in BOOLEAN,
        od \in {<<58>>, <<45, 45>>}, sp \in BOOLEAN}
    \cup FieldScenarios

InitFields ==
    \E c \in FieldCalls :
        /\ f_line = c.line
        /\ f_delim = c.delim
        /\ f_ranges = c.ranges
        /\ f_complement = c.complement
        /\ f_odelim = c.odelim
        /\ f_suppress = c.suppress
        /\ f_pc = "start"
        /\ f_iter = <<>>
        /\ field_num = 0
        /\ field_start = 0
        /\ first_output = FALSE
        /\ f_out = <<>>
        /\ IdleExcept("fld")

\* `let selected = in_ranges(ranges, field_num) != complement;`
Selected(n) == in_ranges(f_ranges, n) # f_complement

\* What `if selected { .. }` writes for the field line[field_start..stop]:
\* the output delimiter unless it is the first field written, then the field.
WriteField(stop) ==
    IF Selected(field_num)
    THEN (IF first_output THEN <<>> ELSE f_odelim) \o Slice(f_line, field_start, stop)
    ELSE <<>>

\* The entry of cut_fields: a line without the delimiter is written whole
\* unless suppress_no_delim; else the locals of the walk are set up.
cut_fields ==
    /\ f_pc = "start"
    /\ IF memchr_iter(f_delim, f_line) = <<>>
       THEN /\ f_out' = IF f_suppress THEN f_out ELSE f_out \o f_line
            /\ f_pc' = "done"
            /\ UNCHANGED <<f_iter, field_num, field_start, first_output>>
       ELSE /\ field_num' = 1
            /\ field_start' = 0
            /\ first_output' = TRUE
            /\ f_iter' = memchr_iter(f_delim, f_line)
            /\ f_pc' = "walk"
            /\ UNCHANGED f_out
    /\ UNCHANGED <<f_line, f_delim, f_ranges, f_complement, f_odelim, f_suppress,
                   not_fld>>

\* One iteration of `for delim_pos in memchr_iter(delim, line)`.
FieldStep ==
    /\ f_pc = "walk"
    /\ f_iter # <<>>
    /\ LET delim_pos == Head(f_iter)
       IN  /\ f_out' = f_out \o WriteField(delim_pos)
           /\ first_output' = (first_output /\ ~Selected(field_num))
           /\ field_start' = delim_pos + 1
           /\ field_num' = field_num + 1
           /\ f_iter' = Tail(f_iter)
    /\ UNCHANGED <<f_line, f_delim, f_ranges, f_complement, f_odelim, f_suppress,
                   f_pc, not_fld>>

\* The last field, after the last delimiter, and Ok(()).
LastField ==
    /\ f_pc = "walk"
    /\ f_iter = <<>>
    /\ f_out' = f_out \o WriteField(Len(f_line))
    /\ f_pc' = "done"
    /\ UNCHANGED <<f_line, f_delim, f_ranges, f_complement, f_odelim, f_suppress,
                   f_iter, field_num, field_start, first_output, not_fld>>

NextFields ==
    \/ cut_fields
    \/ FieldStep
    \/ LastField

SpecFields == InitFields /\ [][NextFields]_vars

\* ------------------------------- find_regex_matches_backward, step by step

InitScan ==
    \E d \in Buffers, re \in {p \in Patterns : Compiles(p)} :
        /\ s_data = d
        /\ s_re = re
        /\ s_pc = "start"
        /\ past_end = 0
        /\ s_pos = 0
        /\ found = FALSE
        /\ s_matches = <<>>
        /\ s_log = <<>>
        /\ IdleExcept("scan")

\* `let mut matches = Vec::new(); let mut past_end = data.len();`
ScanStart ==
    /\ s_pc = "start"
    /\ s_matches' = <<>>
    /\ past_end' = Len(s_data)
    /\ s_pc' = "outer"
    /\ UNCHANGED <<s_data, s_re, s_pos, found, s_log, not_scan>>

\* The test of `while past_end > 0` and the head of its body.
OuterStep ==
    /\ s_pc = "outer"
    /\ IF past_end > 0
       THEN /\ found' = FALSE
            /\ s_pos' = past_end
            /\ s_pc' = "inner"
       ELSE /\ s_pc' = "reverse"
            /\ UNCHANGED <<found, s_pos>>
    /\ UNCHANGED <<s_data, s_re, past_end, s_matches, s_log, not_scan>>

\* Mutant of TakeMatch: a match of no byte is not recorded and leaves
\* past_end where it is.
TakeMatch_skip_empty(m) ==
    /\ found' = TRUE
    /\ IF m[1] = m[2]
       THEN UNCHANGED <<s_matches, past_end, s_log>>
       ELSE /\ s_matches' = Append(s_matches, m)
            /\ s_log' = Append(s_log, [bound |-> past_end, pos |-> m[1], stop |-> m[2]])
            /\ past_end' = m[1]

\* `matches.push((m.start(), m.end())); past_end = m.start(); found = true;`
TakeMatch(m) ==
    /\ s_matches' = Append(s_matches, m)
    /\ s_log' = Append(s_log, [bound |-> past_end, pos |-> m[1], stop |-> m[2]])
    /\ past_end' = m[1]
    /\ found' = TRUE

\* Mutant of ScanProbe: the pattern is run on the whole of data, not on
\* data[..past_end].
ScanProbe_whole_buffer(p) ==
    LET m == find_at(s_re, s_data, p)
    IN  IF m # NoMatch /\ m[1] = p THEN m ELSE NoMatch

\* `re.find_at(buf, pos)` kept when `m.start() == pos`, buf being
\* data[..past_end].
ScanProbe(p) ==
    LET m == find_at(s_re, Slice(s_data, 0, past_end), p)
    IN  IF m # NoMatch /\ m[1] = p THEN m ELSE NoMatch

\* One iteration of `while pos > 0`, or its end.
InnerStep ==
    /\ s_pc = "inner"
    /\ IF s_pos > 0
       THEN LET p == s_pos - 1
                m == ScanProbe(p)
            IN  /\ s_pos' = p
                /\ IF m # NoMatch
                   THEN /\ TakeMatch(m)
                        /\ s_pc' = "check"
                   ELSE UNCHANGED <<s_matches, s_log, past_end, found, s_pc>>
       ELSE /\ s_pc' = "check"
            /\ UNCHANGED <<s_pos, s_matches, s_log, past_end, found>>
    /\ UNCHANGED <<s_data, s_re, not_scan>>

\* `if !found { break; }`
FoundCheck ==
    /\ s_pc = "check"
    /\ s_pc' = IF found THEN "outer" ELSE "reverse"
    /\ UNCHANGED <<s_data, s_re, past_end, s_pos, found, s_matches, s_log, not_scan>>

\* `matches.reverse(); matches`
ReverseReturn ==
    /\ s_pc = "reverse"
    /\ s_matches' = Reverse(s_matches)
    /\ s_pc' = "done"
    /\ UNCHANGED <<s_data, s_re, past_end, s_pos, found, s_log, not_scan>>

NextScan ==
    \/ ScanStart
    \/ OuterStep
    \/ InnerStep
    \/ FoundCheck
    \/ ReverseReturn

\* The function runs to its end once called: every step that can be taken
\* is taken.
SpecScan == InitScan /\ [][NextScan]_vars /\ WF_vars(NextScan)

\* -------------------------------------------------------------------- comm

\* u8::to_ascii_lowercase
to_ascii_lowercase(b) == IF b >= 65 /\ b <= 90 THEN b + 32 ELSE b

\* <[u8] as Ord>::cmp: the first differing byte decides, else the length.
RECURSIVE SliceCmp(_, _)
SliceCmp(a, b) ==
    IF a = <<>> \/ b = <<>>
    THEN (IF Len(a) < Len(b) THEN "Less" ELSE IF Len(a) > Len(b) THEN "Greater" ELSE "Equal")
    ELSE IF Head(a) < Head(b) THEN "Less"
    ELSE IF Head(a) > Head(b) THEN "Greater"
    ELSE SliceCmp(Tail(a), Tail(b))

\* compare_lines(a, b, case_insensitive)
compare_lines(a, b, ci) ==
    IF ci
    THEN SliceCmp([k \in 1..Len(a) |-> to_ascii_lowercase(a[k])],
                  [k \in 1..Len(b) |-> to_ascii_lowercase(b[k])])
    ELSE SliceCmp(a, b)

\* Mutant of split_lines: an empty line is pushed after a trailing delimiter.
split_lines_keep_trailing(d, delim) ==
    LET ps    == memchr_iter(delim, d)
        start == IF ps = <<>> THEN 0 ELSE ps[Len(ps)] + 1
    IN  IF d = <<>> THEN <<>>
        ELSE [k \in 1..Len(ps) |-> Slice(d, IF k = 1 THEN 0 ELSE ps[k - 1] + 1, ps[k])]
             \o <<Slice(d, start, Len(d))>>

\* split_lines(data, delim): the slices between the delimiters, without an
\* empty last line after a trailing delimiter.
split_lines(d, delim) ==
    LET ps    == memchr_iter(delim, d)
        start == IF ps = <<>> THEN 0 ELSE ps[Len(ps)] + 1
    IN  IF d = <<>> THEN <<>>
        ELSE [k \in 1..Len(ps) |-> Slice(d, IF k = 1 THEN 0 ELSE ps[k - 1] + 1, ps[k])]
             \o (IF start < Len(d) THEN <<Slice(d, start, Len(d))>> ELSE <<>>)

\* itoa::Buffer::format(n): the decimal digits of n as bytes.
RECURSIVE itoa(_)
itoa(n) == IF n < 10 THEN <<48 + n>> ELSE itoa(n \div 10) \o <<48 + (n % 10)>>

\* `delim` and `sep` of comm with the default configuration.
CommDelim == {10}

CommSep == <<9>>

delim_byte == CHOOSE b \in CommDelim : TRUE

prefix2 == IF ~c_cfg.suppress_col1 THEN CommSep ELSE <<>>

prefix3 ==
    (IF ~c_cfg.suppress_col1 THEN CommSep ELSE <<>>)
    \o (IF ~c_cfg.suppress_col2 THEN CommSep ELSE <<>>)

\* The lines files are written from: "a", "b", "B".
CommLines == {<<97>>, <<98>>, <<66>>}

\* A file: its lines, each followed by the delimiter, the last one only if
\* terminated.
RECURSIVE FileOf(_, _)
FileOf(ls, terminated) ==
    IF ls = <<>> THEN <<>>
    ELSE IF Len(ls) = 1 THEN Head(ls) \o (IF terminated THEN <<10>> ELSE <<>>)
    ELSE Head(ls) \o <<10>> \o FileOf(Tail(ls), terminated)

CommConfigs ==
    {CommConfig(sp[1], sp[2], sp[3], ci, oc, t) :
        sp \in {<<FALSE, FALSE, FALSE>>, <<TRUE, FALSE, FALSE>>, <<FALSE, TRUE, TRUE>>},
        ci \in BOOLEAN, oc \in {"Default", "Strict", "None"}, t \in BOOLEAN}

CommCall(l1, l2, term, cfg) == [l1 |-> l1, l2 |-> l2, term |-> term, cfg |-> cfg]

\* Files of three lines: sorted ones, one with two descents ("b", "a", "B"),
\* one with an empty line.
CommScenarios ==
    {CommCall(l1, l2, TRUE, CommConfig(FALSE, FALSE, FALSE, FALSE, oc, TRUE)) :
        l1 \in {<<<<98>>, <<97>>, <<66>>>>, <<<<66>>, <<97>>, <<98>>>>,
                <<<<97>>, <<>>, <<98>>>>},
        l2 \in {<<<<97>>, <<98>>>>, <<<<98>>, <<97>>, <<66>>>>, <<>>},
        oc \in {"Default", "Strict", "None"}}

CommCalls ==
    {CommCall(l1, l2, term, cfg) :
        l1 \in SeqsOf(CommLines, 0, MaxLines), l2 \in SeqsOf(CommLines, 0, MaxLines),
        term \in BOOLEAN, cfg \in CommConfigs}
    \cup CommScenarios

InitComm ==
    \E c \in CommCalls :
        /\ c_data1 = FileOf(c.l1, c.term)
        /\ c_data2 = FileOf(c.l2, c.term)
        /\ c_cfg = c.cfg
        /\ c_src = <<c.l1, c.l2>>
        /\ c_pc = "start"
        /\ lines1 = <<>>
        /\ lines2 = <<>>
        /\ i1 = 0
        /\ i2 = 0
        /\ count1 = 0
        /\ count2 = 0
        /\ count3 = 0
        /\ had_order_error = FALSE
        /\ warned1 = FALSE
        /\ warned2 = FALSE
        /\ c_buf = <<>>
        /\ c_out = <<>>
        /\ c_err = <<>>
        /\ c_ret = "pending"
        /\ c_log = <<>>
        /\ IdleExcept("comm")

\* The entry of comm: the prefixes, the two split_lines, the locals.
comm ==
    /\ c_pc = "start"
    /\ lines1' = split_lines(c_data1, delim_byte)
    /\ lines2' = split_lines(c_data2, delim_byte)
    /\ c_pc' = "merge"
    /\ UNCHANGED <<c_data1, c_data2, c_cfg, i1, i2, count1, count2, count3,
                   had_order_error, warned1, warned2, c_buf, c_out, c_err, c_ret,
                   c_log, c_src, not_comm>>

\* The condition of check_order! (and of the two drain loops): the line at
\* idx sorts before its predecessor and the file has not been warned about.
OutOfOrder(warned, lines, ix) ==
    /\ c_cfg.order_check # "None"
    /\ ~warned
    /\ ix > 0
    /\ compare_lines(lines[ix + 1], lines[ix], c_cfg.case_insensitive) = "Less"

\* Mutant of StrictAbort: --check-order handled as the default mode.
StrictAbort_never == FALSE

\* `if config.order_check == OrderCheck::Strict`
StrictAbort == c_cfg.order_check = "Strict"

\* The body of check_order! once the condition holds, for file f; TRUE when
\* the function returns there: the buffer is written and the counts returned.
OrderError(f) ==
    /\ had_order_error' = TRUE
    /\ c_err' = Append(c_err, IF f = 1 THEN "file 1 is not in sorted order"
                              ELSE "file 2 is not in sorted order")
    /\ IF f = 1 THEN warned1' = TRUE /\ UNCHANGED warned2
       ELSE warned2' = TRUE /\ UNCHANGED warned1

\* The Strict return of check_order!: `out.write_all(&buf)?; return Ok(..)`.
AbortComm ==
    /\ c_out' = c_out \o c_buf
    /\ c_ret' = "Ok"
    /\ c_pc' = "done"
    /\ UNCHANGED <<c_buf, i1, i2, count1, count2, count3, c_log>>

\* The periodic flush after an iteration that left buf as b.
FlushIfFull(b) ==
    IF Len(b) >= FLUSH_THRESHOLD
    THEN /\ c_out' = c_out \o b
         /\ c_buf' = <<>>
    ELSE /\ c_buf' = b
         /\ UNCHANGED c_out

\* A line of file 1 only is consumed: column 1.
Take1(flush) ==
    /\ LET b == c_buf \o (IF ~c_cfg.suppress_col1 THEN lines1[i1 + 1] \o <<delim_byte>>
                           ELSE <<>>)
       IN  IF flush THEN FlushIfFull(b) ELSE c_buf' = b /\ UNCHANGED c_out
    /\ count1' = count1 + 1
    /\ i1' = i1 + 1
    /\ c_log' = Append(c_log, [col |-> 1, line |-> lines1[i1 + 1], twin |-> <<>>])
    /\ UNCHANGED <<i2, count2, count3, c_pc, c_ret>>

\* A line of file 2 only is consumed: column 2.
Take2(flush) ==
    /\ LET b == c_buf \o (IF ~c_cfg.suppress_col2
                           THEN prefix2 \o lines2[i2 + 1] \o <<delim_byte>> ELSE <<>>)
       IN  IF flush THEN FlushIfFull(b) ELSE c_buf' = b /\ UNCHANGED c_out
    /\ count2' = count2 + 1
    /\ i2' = i2 + 1
    /\ c_log' = Append(c_log, [col |-> 2, line |-> lines2[i2 + 1], twin |-> <<>>])
    /\ UNCHANGED <<i1, count1, count3, c_pc, c_ret>>

\* A line common to both files is consumed: column 3, no order check.
Take3 ==
    /\ FlushIfFull(c_buf \o (IF ~c_cfg.suppress_col3
                              THEN prefix3 \o lines1[i1 + 1] \o <<delim_byte>> ELSE <<>>))
    /\ count3' = count3 + 1
    /\ i1' = i1 + 1
    /\ i2' = i2 + 1
    /\ c_log' = Append(c_log, [col |-> 3, line |-> lines1[i1 + 1], twin |-> lines2[i2 + 1]])
    /\ UNCHANGED <<count1, count2, c_pc, c_ret, had_order_error, warned1, warned2, c_err>>

\* The order check of file f and, unless it returns, the consumption of the
\* line: the body shared by the merge loop and the drain loops.
CheckAndTake(f, flush) ==
    LET bad == IF f = 1 THEN OutOfOrder(warned1, lines1, i1)
               ELSE OutOfOrder(warned2, lines2, i2)
    IN  /\ IF bad THEN OrderError(f)
           ELSE UNCHANGED <<had_order_error, warned1, warned2, c_err>>
        /\ IF bad /\ StrictAbort THEN AbortComm
           ELSE IF f = 1 THEN Take1(flush) ELSE Take2(flush)

\* One iteration of `while i1 < lines1.len() && i2 < lines2.len()`, or its end.
CommMerge ==
    /\ c_pc = "merge"
    /\ IF i1 < Len(lines1) /\ i2 < Len(lines2)
       THEN LET o == compare_lines(lines1[i1 + 1], lines2[i2 + 1], c_cfg.case_insensitive)
            IN  CASE o = "Less"    -> CheckAndTake(1, TRUE)
                  [] o = "Greater" -> CheckAndTake(2, TRUE)
                  [] o = "Equal"   -> Take3
       ELSE /\ c_pc' = "drain1"
            /\ UNCHANGED <<i1, i2, count1, count2, count3, had_order_error, warned1,
                           warned2, c_buf, c_out, c_err, c_ret, c_log>>
    /\ UNCHANGED <<c_data1, c_data2, c_cfg, lines1, lines2, c_src, not_comm>>

\* One iteration of `while i1 < lines1.len()`, or its end.
CommDrain1 ==
    /\ c_pc = "drain1"
    /\ IF i1 < Len(lines1)
       THEN CheckAndTake(1, FALSE)
       ELSE /\ c_pc' = "drain2"
            /\ UNCHANGED <<i1, i2, count1, count2, count3, had_order_error, warned1,
                           warned2, c_buf, c_out, c_err, c_ret, c_log>>
    /\ UNCHANGED <<c_data1, c_data2, c_cfg, lines1, lines2, c_src, not_comm>>

\* One iteration of `while i2 < lines2.len()`, or its end.
CommDrain2 ==
    /\ c_pc = "drain2"
    /\ IF i2 < Len(lines2)
       THEN CheckAndTake(2, FALSE)
       ELSE /\ c_pc' = "finish"
            /\ UNCHANGED <<i1, i2, count1, count2, count3, had_order_error, warned1,
                           warned2, c_buf, c_out, c_err, c_ret, c_log>>
    /\ UNCHANGED <<c_data1, c_data2, c_cfg, lines1, lines2, c_src, not_comm>>

\* The total line written by --total.
TotalLine ==
    itoa(count1) \o CommSep \o itoa(count2) \o CommSep \o itoa(count3) \o CommSep
        \o <<116, 111, 116, 97, 108>> \o <<delim_byte>>

\* The total line, the summary message of the default mode, the last write
\* and Ok(CommResult).
CommFinish ==
    /\ c_pc = "finish"
    /\ c_out' = c_out \o c_buf \o (IF c_cfg.total THEN TotalLine ELSE <<>>)
    /\ c_buf' = c_buf \o (IF c_cfg.total THEN TotalLine ELSE <<>>)
    /\ c_err' = IF had_order_error /\ c_cfg.order_check = "Default"
                THEN Append(c_err, "input is not in sorted order") ELSE c_err
    /\ c_ret' = "Ok"
    /\ c_pc' = "done"
    /\ UNCHANGED <<c_data1, c_data2, c_cfg, lines1, lines2, i1, i2, count1, count2,
                   count3, had_order_error, warned1, warned2, c_log, c_src, not_comm>>

NextComm ==
    \/ comm
    \/ CommMerge
    \/ CommDrain1
    \/ CommDrain2
    \/ CommFinish

SpecComm == InitComm /\ [][NextComm]_vars

\* ------------------------------------------------- ftac: read_file_for_tac

\* A path that can be opened: a regular file whose metadata reports its
\* length, a pseudo-file (regular, reported length 0, as under /proc), a
\* regular file reported longer than what a read delivers (as under /sys),
\* or a FIFO (reported length 0).
InitRead ==
    /\ r_content \in SeqsOf(Alphabet, 0, MaxLen)
    /\ r_type \in {"file", "fifo"}
    /\ r_len \in IF r_type = "fifo" THEN {0}
                 ELSE {0, Len(r_content)}
                      \cup (IF Len(r_content) + 1 < SMALL_FILE_LIMIT
                            THEN {Len(r_content) + 1} ELSE {})
    /\ r_pc = "start"
    /\ r_buf = <<>>
    /\ r_total = 0
    /\ r_irq = 0
    /\ r_ret = "pending"
    /\ r_out = <<>>
    /\ IdleExcept("read")

ReturnData(res, d) ==
    /\ r_ret' = res
    /\ r_out' = d
    /\ r_pc' = "done"

\* The entry of read_file_for_tac: open, metadata and the choice of a path.
read_file_for_tac ==
    /\ r_pc = "start"
    /\ IF r_len = 0 \/ r_type # "file"
       THEN IF r_len > 0
            THEN /\ r_pc' = "read_to_end"
                 /\ UNCHANGED <<r_ret, r_out, r_buf>>
            ELSE /\ ReturnData("Ok", <<>>)
                 /\ UNCHANGED r_buf
       ELSE IF r_len < SMALL_FILE_LIMIT
            THEN /\ r_buf' = [k \in 1..r_len |-> 0]
                 /\ r_pc' = "read"
                 /\ UNCHANGED <<r_ret, r_out>>
            ELSE /\ r_pc' = "mmap"
                 /\ UNCHANGED <<r_ret, r_out, r_buf>>
    /\ UNCHANGED <<r_type, r_len, r_content, r_total, r_irq, not_read>>

\* One turn of `while total < buf.len()`: a read of some bytes, end of file,
\* an interruption or an error; after the loop, truncate and return.
ReadStep ==
    /\ r_pc = "read"
    /\ IF r_total < Len(r_buf)
       THEN \/ /\ r_total < Len(r_content)
               /\ \E n \in 1..Min({Len(r_buf) - r_total, Len(r_content) - r_total}) :
                    /\ r_buf' = [k \in 1..Len(r_buf) |->
                                    IF k > r_total /\ k <= r_total + n
                                    THEN r_content[k] ELSE r_buf[k]]
                    /\ r_total' = r_total + n
               /\ UNCHANGED <<r_pc, r_ret, r_out, r_irq>>
            \/ /\ r_total >= Len(r_content)
               /\ ReturnData("Ok", SubSeq(r_buf, 1, r_total))
               /\ UNCHANGED <<r_buf, r_total, r_irq>>
            \/ /\ r_irq < MaxFaults
               /\ r_irq' = r_irq + 1
               /\ UNCHANGED <<r_pc, r_ret, r_out, r_buf, r_total>>
            \/ /\ ReturnData("Err", <<>>)
               /\ UNCHANGED <<r_buf, r_total, r_irq>>
       ELSE /\ ReturnData("Ok", SubSeq(r_buf, 1, r_total))
            /\ UNCHANGED <<r_buf, r_total, r_irq>>
    /\ UNCHANGED <<r_type, r_len, r_content, not_read>>

\* The mapping of a large file: the len bytes of the file, or a failure
\* that falls back to read_to_end.
MapFile ==
    /\ r_pc = "mmap"
    /\ \/ ReturnData("Ok", SubSeq(r_content, 1, r_len))
       \/ /\ r_pc' = "read_to_end"
          /\ UNCHANGED <<r_ret, r_out>>
    /\ UNCHANGED <<r_type, r_len, r_content, r_buf, r_total, r_irq, not_read>>

\* io::Read::read_to_end: everything up to end of file, or an error.
ReadToEnd ==
    /\ r_pc = "read_to_end"
    /\ \/ ReturnData("Ok", r_content)
       \/ ReturnData("Err", <<>>)
    /\ UNCHANGED <<r_type, r_len, r_content, r_buf, r_total, r_irq, not_read>>

NextRead ==
    \/ read_file_for_tac
    \/ ReadStep
    \/ MapFile
    \/ ReadToEnd

SpecRead == InitRead /\ [][NextRead]_vars

\* --------------------------------------------------- ftac: main and run

\* What taking up one file comes to: it cannot be read, or it is read and the
\* engine returns Ok, Err(BrokenPipe) or another error.
Outcomes == {"unreadable", "Ok", "BrokenPipe", "Other"}

InitDriver ==
    /\ d_args \in SeqsOf(Outcomes, 0, MaxFiles)
    /\ d_stdin \in Outcomes
    /\ d_args # <<>> => d_stdin = "Ok"
    /\ files = <<>>
    /\ d_pc = "main"
    /\ d_k = 0
    /\ had_error = FALSE
    /\ d_exit = "none"
    /\ d_log = <<>>
    /\ IdleExcept("ftac")

\* main up to the call of run: no file named means standard input.
main ==
    /\ d_pc = "main"
    /\ files' = IF d_args = <<>> THEN <<d_stdin>> ELSE d_args
    /\ d_pc' = "run"
    /\ UNCHANGED <<d_args, d_stdin, d_k, had_error, d_exit, d_log, not_drv>>

\* One turn of `for filename in files`.
run ==
    /\ d_pc = "run"
    /\ d_k < Len(files)
    /\ LET o == files[d_k + 1]
       IN  /\ d_log' = Append(d_log, o)
           /\ d_k' = d_k + 1
           /\ CASE o = "unreadable" ->
                     /\ had_error' = TRUE
                     /\ UNCHANGED <<d_pc, d_exit>>
                [] o = "Ok" ->
                     UNCHANGED <<had_error, d_pc, d_exit>>
                [] o = "BrokenPipe" ->
                     /\ d_exit' = 0
                     /\ d_pc' = "exited"
                     /\ UNCHANGED had_error
                [] o = "Other" ->
                     /\ had_error' = TRUE
                     /\ UNCHANGED <<d_pc, d_exit>>
    /\ UNCHANGED <<d_args, d_stdin, files, not_drv>>

\* The return of run and the end of main: exit(1) if had_error.
Exit ==
    /\ d_pc = "run"
    /\ d_k = Len(files)
    /\ d_exit' = IF had_error THEN 1 ELSE 0
    /\ d_pc' = "exited"
    /\ UNCHANGED <<d_args, d_stdin, files, d_k, had_error, d_log, not_drv>>

NextDriver ==
    \/ main
    \/ run
    \/ Exit

SpecDriver == InitDriver /\ [][NextDriver]_vars

\* ------------------------------------------------------------------ base64

\* The standard alphabet: A-Z, a-z, 0-9, "+", "/".
B64Char(v) ==
    IF v < 26 THEN 65 + v
    ELSE IF v < 52 THEN 97 + (v - 26)
    ELSE IF v < 62 THEN 48 + (v - 52)
    ELSE IF v = 62 THEN 43 ELSE 47

\* BASE64_ENGINE.encoded_length(n)
encoded_length(n) == 4 * ((n + 2) \div 3)

\* BASE64_ENGINE.encode: four characters for every three bytes, the last
\* group padded with "=".
RECURSIVE encode(_)
encode(d) ==
    IF d = <<>> THEN <<>>
    ELSE IF Len(d) = 1
    THEN <<B64Char(d[1] \div 4), B64Char((d[1] % 4) * 16), 61, 61>>
    ELSE IF Len(d) = 2
    THEN <<B64Char(d[1] \div 4), B64Char((d[1] % 4) * 16 + d[2] \div 16),
           B64Char((d[2] % 16) * 4), 61>>
    ELSE <<B64Char(d[1] \div 4), B64Char((d[1] % 4) * 16 + d[2] \div 16),
           B64Char((d[2] % 16) * 4 + d[3] \div 64), B64Char(d[3] % 64)>>
         \o encode(SubSeq(d, 4, Len(d)))

\* The bytes inputs are made of ("M" and 0xFF).
B64Bytes == {77, 255}

InitBase64 ==
    /\ b_data \in SeqsOf(B64Bytes, 0, MaxData)
    /\ wrap_col \in 0..MaxWrap
    /\ b_pc = "encode_to_writer"
    /\ w_rest = <<>>
    /\ w_out = <<>>
    /\ w_ret = "pending"
    /\ st_rest = <<>>
    /\ col = 0
    /\ st_bw = <<>>
    /\ st_out = <<>>
    /\ st_ret = "pending"
    /\ IdleExcept("base64")

\* The locals of encode_wrapped.
bytes_per_line == (wrap_col * 3) \div 4

lines_per_chunk == WRAP_CHUNK \div bytes_per_line

chunk_input == lines_per_chunk * bytes_per_line

wrapped_max == (lines_per_chunk + 1) * (wrap_col + 1)

\* encode_to_writer up to the loop of encode_wrapped: nothing for an empty
\* input, encode_no_wrap for wrap_col 0; the division by bytes_per_line and
\* data.chunks(chunk_input) panic on a zero.
encode_to_writer ==
    /\ b_pc = "encode_to_writer"
    /\ IF b_data = <<>>
       THEN /\ w_ret' = "Ok"
            /\ b_pc' = "encode_stream"
            /\ UNCHANGED <<w_out, w_rest>>
       ELSE IF wrap_col = 0
       THEN /\ w_out' = encode(b_data)
            /\ w_ret' = "Ok"
            /\ b_pc' = "encode_stream"
            /\ UNCHANGED w_rest
       ELSE IF bytes_per_line = 0 \/ chunk_input = 0
       THEN /\ w_ret' = "panic"
            /\ b_pc' = "encode_stream"
            /\ UNCHANGED <<w_out, w_rest>>
       ELSE /\ w_rest' = b_data
            /\ b_pc' = "encode_wrapped"
            /\ UNCHANGED <<w_out, w_ret>>
    /\ UNCHANGED <<b_data, wrap_col, st_rest, col, st_bw, st_out, st_ret, not_b64>>

\* The wrapped output encode_wrapped builds for one chunk: full lines while
\* rp + wrap_col <= encoded.len(), then the rest, each followed by "\n".
RECURSIVE WrapChunk(_)
WrapChunk(encoded) ==
    IF wrap_col <= Len(encoded)
    THEN SubSeq(encoded, 1, wrap_col) \o <<10>>
         \o WrapChunk(SubSeq(encoded, wrap_col + 1, Len(encoded)))
    ELSE IF encoded # <<>> THEN encoded \o <<10>> ELSE <<>>

\* One turn of `for chunk in data.chunks(chunk_input)`, or the Ok(()) after
\* the loop; wrap_buf holds wrapped_max bytes and indexing past it panics.
EncodeChunk ==
    /\ b_pc = "encode_wrapped"
    /\ IF w_rest = <<>>
       THEN /\ w_ret' = "Ok"
            /\ b_pc' = "encode_stream"
            /\ UNCHANGED <<w_out, w_rest>>
       ELSE LET n       == Min({chunk_input, Len(w_rest)})
                wrapped == WrapChunk(encode(SubSeq(w_rest, 1, n)))
            IN  IF Len(wrapped) > wrapped_max
                THEN /\ w_ret' = "panic"
                     /\ b_pc' = "encode_stream"
                     /\ UNCHANGED <<w_out, w_rest>>
                ELSE /\ w_out' = w_out \o wrapped
                     /\ w_rest' = SubSeq(w_rest, n + 1, Len(w_rest))
                     /\ UNCHANGED <<w_ret, b_pc>>
    /\ UNCHANGED <<b_data, wrap_col, st_rest, col, st_bw, st_out, st_ret, not_b64>>

STREAM_ENCODE_CHUNK == STREAM_BASE - (STREAM_BASE % 3)

\* BufWriter::write_all on a sink that takes every write: s is [bw, out].
BufPut(s, d) ==
    IF Len(d) < STREAM_BUF - Len(s.bw)
    THEN [bw |-> s.bw \o d, out |-> s.out]
    ELSE IF Len(d) >= STREAM_BUF
    THEN [bw |-> <<>>, out |-> s.out \o s.bw \o d]
    ELSE [bw |-> d, out |-> s.out \o s.bw]

RECURSIVE BufPutAll(_, _)
BufPutAll(s, ws) == IF ws = <<>> THEN s ELSE BufPutAll(BufPut(s, Head(ws)), Tail(ws))

\* write_wrapped(out, data, wrap_col, col): the write_all calls it makes, in
\* order, and the column it leaves.
RECURSIVE write_wrapped(_, _)
write_wrapped(remaining, c) ==
    LET space == wrap_col - c
    IN  IF remaining = <<>> THEN [writes |-> <<>>, col |-> c]
        ELSE IF Len(remaining) <= space
        THEN IF c + Len(remaining) = wrap_col
             THEN [writes |-> <<remaining, <<10>>>>, col |-> 0]
             ELSE [writes |-> <<remaining>>, col |-> c + Len(remaining)]
        ELSE LET r == write_wrapped(SubSeq(remaining, space + 1, Len(remaining)), 0)
             IN  [writes |-> <<SubSeq(remaining, 1, space), <<10>>>> \o r.writes,
                  col |-> r.col]

\* The entry of encode_stream: the buffers, col and the BufWriter.
encode_stream ==
    /\ b_pc = "encode_stream"
    /\ st_rest' = b_data
    /\ col' = 0
    /\ st_bw' = <<>>
    /\ b_pc' = "stream_loop"
    /\ UNCHANGED <<b_data, wrap_col, w_rest, w_out, w_ret, st_out, st_ret, not_b64>>

\* One turn of the loop of encode_stream: read_full fills buf unless the
\* input ends, the chunk is encoded and written, wrapped if asked for; after
\* the last chunk, the newline of a partial line and out.flush().
StreamChunk ==
    /\ b_pc = "stream_loop"
    /\ LET n == Min({STREAM_ENCODE_CHUNK, Len(st_rest)})
           encoded == encode(SubSeq(st_rest, 1, n))
           s == [bw |-> st_bw, out |-> st_out]
       IN  IF n = 0
           THEN LET t == IF wrap_col > 0 /\ col > 0 THEN BufPut(s, <<10>>) ELSE s
                IN  /\ st_out' = t.out \o t.bw
                    /\ st_bw' = <<>>
                    /\ st_ret' = "Ok"
                    /\ b_pc' = "done"
                    /\ UNCHANGED <<st_rest, col>>
           ELSE /\ st_rest' = SubSeq(st_rest, n + 1, Len(st_rest))
                /\ IF wrap_col = 0
                   THEN /\ st_bw' = BufPut(s, encoded).bw
                        /\ st_out' = BufPut(s, encoded).out
                        /\ UNCHANGED col
                   ELSE LET w == write_wrapped(encoded, col)
                            t == BufPutAll(s, w.writes)
                        IN  /\ st_bw' = t.bw
                            /\ st_out' = t.out
                            /\ col' = w.col
                /\ UNCHANGED <<st_ret, b_pc>>
    /\ UNCHANGED <<b_data, wrap_col, w_rest, w_out, w_ret, not_b64>>

NextBase64 ==
    \/ encode_to_writer
    \/ EncodeChunk
    \/ encode_stream
    \/ StreamChunk

SpecBase64 == InitBase64 /\ [][NextBase64]_vars


\* ------------------------------------------------------ what the claims use

Done == pc = "done"

Succeeded == pc = "done" /\ result = OkRes

\* The call takes the in-place path of tac_bytes_owned.
InPlace ==
    /\ entry = "tac_bytes_owned"
    /\ ~before
    /\ data0 # <<>>
    /\ data0[Len(data0)] = separator[1]

\* The match list [start, end) the record assembler works from.
MatchList ==
    IF entry = "tac_regex_separator" THEN matches
    ELSE [k \in 1..Len(positions) |->
            <<positions[k], positions[k] + Len(separator)>>]

\* The spans of a list that hold at least one byte.
NonEmpty(sp) == SelectSeq(sp, LAMBDA s : s[1] < s[2])

\* After mode: [last.end, len), then [prev.end, match_i.end) for i = n..1.
AfterSpans(ms, len) ==
    LET n == Len(ms)
        rec(i) == <<IF i = 1 THEN 0 ELSE ms[i - 1][2], ms[i][2]>>
    IN  NonEmpty(<<<<ms[n][2], len>>>> \o [k \in 1..n |-> rec(n + 1 - k)])

\* Before mode: [match_i.start, match_{i+1}.start) for i = n..1 (len for the
\* last match), then [0, match_1.start).
BeforeSpans(ms, len) ==
    LET n == Len(ms)
        rec(i) == <<ms[i][1], IF i < n THEN ms[i + 1][1] ELSE len>>
    IN  NonEmpty([k \in 1..n |-> rec(n + 1 - k)] \o <<<<0, ms[1][1]>>>>)

\* The bytes of d the spans name, in the order of the list.
BytesOf(d, sp) == Concat([k \in 1..Len(sp) |-> Slice(d, sp[k][1], sp[k][2])])

IsPrefix(s, t) == Len(s) <= Len(t) /\ s = SubSeq(t, 1, Len(s))

\* A write() that returned an error other than Interrupted.
FailedWrite(w) == w.kind \notin {"Ok", "Interrupted"}

\* The sink accepted, wholly or in part, every write it was offered: it
\* returned no error other than Interrupted and no Ok(0).
SinkHealthy ==
    \A k \in 1..Len(wlog) :
        /\ ~FailedWrite(wlog[k])
        /\ wlog[k].kind = "Ok" => wlog[k].n > 0

\* ------------------------------------------------------------------ claims

\* C1: After mode, any separator kind, at least one match: the engine's
\* write_all calls are, in this order, [last.end, len) if non-empty and then
\* [prev.end, match_i.end) for i from the last match down to the first (a
\* span of no byte is no write); at any moment the spans issued so far are a
\* prefix of that list, a successful call has issued all of them and the sink
\* holds their bytes; "a\nb\nc\n" with separator "\n" gives "c\nb\na\n".
C1_AfterSpans ==
    (~before /\ ~InPlace /\ MatchList # <<>>) =>
        /\ IsPrefix(spans, AfterSpans(MatchList, Len(data0)))
        /\ Succeeded =>
             /\ spans = AfterSpans(MatchList, Len(data0))
             /\ sink = BytesOf(data0, spans)
             /\ (data0 = <<97, 10, 98, 10, 99, 10>> /\ separator = <<10>>)
                    => sink = <<99, 10, 98, 10, 97, 10>>

C1_Witness ==
    /\ Succeeded
    /\ entry = "tac_bytes"
    /\ ~before
    /\ data0 = <<97, 10, 98, 10, 99, 10>>
    /\ Len(spans) = 3

\* C2: Before mode, any separator kind, at least one match: the engine's
\* write_all calls are, in this order, [match_i.start, match_{i+1}.start) for
\* i from the last match down to the first (len for the last match) and then
\* [0, match_1.start) if non-empty; "\na\nb" with separator "\n" gives
\* "\nb\na".
C2_BeforeSpans ==
    (before /\ MatchList # <<>>) =>
        /\ IsPrefix(spans, BeforeSpans(MatchList, Len(data0)))
        /\ Succeeded =>
             /\ spans = BeforeSpans(MatchList, Len(data0))
             /\ sink = BytesOf(data0, spans)
             /\ (data0 = <<10, 97, 10, 98>> /\ separator = <<10>>)
                    => sink = <<10, 98, 10, 97>>

C2_Witness ==
    /\ Succeeded
    /\ before
    /\ data0 = <<10, 97, 10, 98>>
    /\ separator = <<10>>
    /\ Len(spans) = 2

\* The call of the scenario "a\nb\nc", byte separator "\n", After mode.
NoTrailingScenario ==
    /\ entry \in {"tac_bytes", "tac_bytes_owned"}
    /\ ~before
    /\ separator = <<10>>
    /\ data0 = <<97, 10, 98, 10, 99>>

\* C3 as stated: "a\nb\nc" gives "c\nb\na".
C3_Original ==
    (Succeeded /\ NoTrailingScenario) => sink = <<99, 10, 98, 10, 97>>

\* C3 amended: "a\nb\nc" gives "cb\na\n": the final partial record "c" is
\* written first with no separator appended, so it runs into "b\n", and the
\* output, unlike the input, ends with the separator.
C3_NoTrailingSeparator ==
    (Succeeded /\ NoTrailingScenario) =>
        /\ sink = <<99, 98, 10, 97, 10>>
        /\ sink[Len(sink)] = separator[1]
        /\ data0[Len(data0)] # separator[1]

C3_Witness ==
    /\ Succeeded
    /\ NoTrailingScenario
    /\ entry = "tac_bytes"
    /\ sink = <<99, 98, 10, 97, 10>>


\* A byte string with a proper border: a prefix that is also a suffix.
SelfOverlapping(s) ==
    \E k \in 1..(Len(s) - 1) : SubSeq(s, 1, k) = SubSeq(s, Len(s) - k + 1, Len(s))

\* The separator of a byte or byte-string call occurs in d.
Occurs(d) == \E p \in 0..(Len(d) - 1) : OccursAt(d, separator, p)

StartsWithSep(d) == OccursAt(d, separator, 0)

EndsWithSep(d) ==
    /\ Len(d) >= Len(separator)
    /\ OccursAt(d, separator, Len(d) - Len(separator))

\* A second call, on the output of the first, has succeeded; the separator is
\* a byte or a byte string that does not overlap itself.
SecondCallDone ==
    /\ Succeeded
    /\ round = 2
    /\ entry # "tac_regex_separator"
    /\ ~SelfOverlapping(separator)

\* C4 as stated: two calls with the same separator and mode give back the
\* buffer of the first call, whatever the buffer.
C4_Original == SecondCallDone => sink = first

\* C4 amended: two calls give back the buffer of the first call when the
\* separator does not occur in it, or, in After mode, when the buffer ends
\* with the separator and, in Before mode, when it begins with the separator.
C4_DoubleReversal ==
    (/\ SecondCallDone
     /\ \/ ~Occurs(first)
        \/ ~before /\ EndsWithSep(first)
        \/ before /\ StartsWithSep(first))
        => sink = first

\* ... and in every other case they do not.
C4_OnlyThen ==
    (/\ SecondCallDone
     /\ Occurs(first)
     /\ ~before => ~EndsWithSep(first)
     /\ before => ~StartsWithSep(first))
        => sink # first

C4_Witness ==
    /\ SecondCallDone
    /\ ~before
    /\ EndsWithSep(first)
    /\ Len(positions) >= 2
    /\ data0 # first
    /\ sink = first

\* The spans of a set in ascending order of start.
RECURSIVE SortByStart(_)
SortByStart(S) ==
    IF S = {} THEN <<>>
    ELSE LET m == CHOOSE x \in S : \A y \in S : x[1] <= y[1]
         IN  <<m>> \o SortByStart(S \ {m})

\* The spans of the list, each of at least one byte, are pairwise disjoint
\* and cover [0, len): in ascending order each starts where the one before
\* ends, the first at 0, and the last ends at len.
Tiles(sp, len) ==
    LET asc == SortByStart({sp[k] : k \in 1..Len(sp)})
    IN  /\ Len(asc) = Len(sp)
        /\ \A k \in 1..Len(asc) : asc[k][1] < asc[k][2]
        /\ \A k \in 1..(Len(asc) - 1) : asc[k][2] = asc[k + 1][1]
        /\ IF len = 0 THEN asc = <<>>
           ELSE asc # <<>> /\ asc[1][1] = 0 /\ asc[Len(asc)][2] = len

\* C5: every buffer, separator kind and mode: the spans a successful call has
\* written are pairwise disjoint and cover [0, len) exactly, their bytes in
\* ascending order of start are the input, the sink holds the bytes of the
\* spans in the order written, and the output is as long as the input.
C5_SpansTile ==
    Succeeded =>
        /\ Len(sink) = Len(data0)
        /\ ~InPlace =>
             /\ Tiles(spans, Len(data0))
             /\ BytesOf(data0, SortByStart({spans[k] : k \in 1..Len(spans)})) = data0
             /\ sink = BytesOf(data0, spans)

C5_Witness ==
    /\ Succeeded
    /\ entry = "tac_regex_separator"
    /\ pattern.op = "str"
    /\ Len(spans) = 2
    /\ spans[1][1] > spans[2][1]
    /\ sink # data0

\* The separator of the call has no occurrence in the buffer passed.
NeverOccurs ==
    IF entry = "tac_regex_separator"
    THEN /\ Compiles(pattern)
         /\ \A p \in 0..(Len(data0) - 1) : MatchEndAt(pattern, data0, p) = -1
    ELSE ~Occurs(data0)

\* C6: the separator never occurs in the buffer, or the buffer is empty: every
\* entry point, in either mode, with a sink that accepts what it is offered
\* (short writes included), returns Ok and the sink has received exactly the
\* input bytes; for an empty buffer the sink's write is never called.
C6_NoSeparatorIdentity ==
    (Done /\ (data0 = <<>> \/ NeverOccurs)) =>
        /\ data0 = <<>> => (result = OkRes /\ wlog = <<>>)
        /\ SinkHealthy => (result = OkRes /\ sink = data0)
        /\ IsPrefix(sink, data0)

C6_Witness ==
    /\ Succeeded
    /\ entry = "tac_regex_separator"
    /\ NeverOccurs
    /\ Len(data0) >= 3
    /\ Len(wlog) >= 2
    /\ sink = data0

AfterOutput(d, b) ==
    LET ps == memchr_iter(b, d)
    IN  IF ps = <<>> THEN d
        ELSE BytesOf(d, AfterSpans([k \in 1..Len(ps) |-> <<ps[k], ps[k] + 1>>], Len(d)))

C8_InvalidPattern ==
    (Done /\ entry = "tac_regex_separator" /\ ~Compiles(pattern)) =>
        /\ result.kind = "InvalidInput"
        /\ sink = <<>>
        /\ wlog = <<>>

\* C9: once a write on the sink has returned an error (other than the
\* Interrupted that write_all absorbs), no further write is issued on the
\* sink, and the call returns an error.
C9_NoWriteAfterFailure ==
    /\ \A k \in 1..(Len(wlog) - 1) : ~FailedWrite(wlog[k])
    /\ (Done /\ \E k \in 1..Len(wlog) : FailedWrite(wlog[k])) => result.kind # "Ok"

\* C10: every error the sink's write returns, of whatever kind, is what the
\* call returns (the error of write k is Res(kind, k)), and a write that
\* returned an error is not issued again.
C10_ErrorSurfaced ==
    /\ Done =>
          \A k \in 1..Len(wlog) :
              wlog[k].kind # "Ok" => result = Res(wlog[k].kind, k)
    /\ \A k \in 1..(Len(wlog) - 1) :
          wlog[k].kind # "Ok" => wlog[k + 1].offer # wlog[k].offer

\* A write() that answered Ok(0): no byte accepted, no error.
ZeroWrite(w) == w.kind = "Ok" /\ w.n = 0

\* C11: a write() on the sink that answers Ok(0) for a non-empty offer ends
\* the call with a WriteZero error (which is not the InvalidInput of a bad
\* pattern) and is not tried again: no write() follows it, on the direct
\* path, on the buffered path and in the final flush alike.
C11_WriteZero ==
    /\ (Done /\ \E k \in 1..Len(wlog) : ZeroWrite(wlog[k])) =>
            result.kind = "WriteZero"
    /\ \A k \in 1..(Len(wlog) - 1) : ~ZeroWrite(wlog[k])

\* The cut points of the byte-separator records of d: after every separator
\* byte in After mode, before it in Before mode, and both ends of d.
CutPoints(d, b, bef) ==
    {0, Len(d)} \cup {IF bef THEN k - 1 ELSE k : k \in {j \in 1..Len(d) : d[j] = b}}

\* The pieces of d[0..hi) between consecutive cut points, last piece first.
RECURSIVE RevPieces(_, _, _)
RevPieces(d, cuts, hi) ==
    IF hi = 0 THEN <<>>
    ELSE LET lo == Max({c \in cuts : c < hi})
         IN  Slice(d, lo, hi) \o RevPieces(d, cuts, lo)

\* The records of d for the separator byte b, in reverse order.
TacOf(d, b, bef) == RevPieces(d, CutPoints(d, b, bef), Len(d))

\* What a call writes when every write() is accepted in full: the buffer
\* itself without a match, else the bytes of the record spans in emission
\* order.
Expected ==
    IF InPlace THEN TacOf(data0, separator[1], FALSE)
    ELSE IF MatchList = <<>> THEN data0
    ELSE BytesOf(data0, IF before THEN BeforeSpans(MatchList, Len(data0))
                        ELSE AfterSpans(MatchList, Len(data0)))

\* A write() of which the sink accepted a non-empty proper prefix.
ShortWrite(w) == w.kind = "Ok" /\ 0 < w.n /\ w.n < Len(w.offer)

\* C12: after a write() of which the sink accepted only a non-empty prefix,
\* the next write() offers exactly the bytes that were left; and whatever
\* the short writes of a successful call, the sink has received the bytes it
\* receives when every write is accepted in full.
C12_PartialWriteRecovery ==
    /\ \A k \in 1..(Len(wlog) - 1) :
          ShortWrite(wlog[k]) =>
              wlog[k + 1].offer =
                  SubSeq(wlog[k].offer, wlog[k].n + 1, Len(wlog[k].offer))
    /\ Succeeded => sink = Expected

C12_Witness ==
    /\ Succeeded
    /\ bw.active
    /\ Len(spans) >= 2
    /\ Len(wlog) >= 3
    /\ ShortWrite(wlog[1])
    /\ ShortWrite(wlog[2])
    /\ sink = Expected
    /\ sink # data0

\* C13: when a call returns Ok, every output byte is in the sink: the
\* BufWriter holds nothing, no write_all is unfinished, the sink holds the
\* whole output (as many bytes as the input), and where the call went through
\* a BufWriter, flush() has been called on it; on the paths without a
\* BufWriter (no separator, tac_bytes_owned in place) the bytes went to the
\* sink directly.
C13_FlushedOnSuccess ==
    Succeeded =>
        /\ bw.buf = <<>>
        /\ cur = <<>>
        /\ Len(sink) = Len(data0)
        /\ sink = Concat([k \in 1..Len(wlog) |-> SubSeq(wlog[k].offer, 1, wlog[k].n)])
        /\ bw.active => flushed
        /\ (~bw.active /\ data0 # <<>>) => wlog # <<>>

C13_Witness ==
    /\ Succeeded
    /\ bw.active
    /\ flushed
    /\ Len(spans) >= 2
    /\ Len(wlog) = 1
    /\ wlog[1].offer = sink
    /\ bw.buf = <<>>

\* C14: in both modes and for every separator kind, the spans the engine
\* writes each hold at least one byte and come in strictly decreasing order
\* of start (each ends at or before the start of the one written before it),
\* and the sink receives the bytes of each span in the order of the buffer:
\* what it holds is a prefix of the spans' bytes laid end to end.
C14_ReverseOrder ==
    ~InPlace =>
        /\ \A k \in 1..Len(spans) : spans[k][1] < spans[k][2]
        /\ \A k \in 1..(Len(spans) - 1) :
              /\ spans[k + 1][1] < spans[k][1]
              /\ spans[k + 1][2] <= spans[k][1]
        /\ IsPrefix(sink, BytesOf(data0, spans))

C14_Witness ==
    /\ Succeeded
    /\ entry = "tac_regex_separator"
    /\ before
    /\ Len(spans) >= 3
    /\ spans[1][1] > spans[2][1]
    /\ spans[2][1] > spans[3][1]
    /\ sink = BytesOf(data0, spans)

\* C15: whether a span is copied into the BufWriter, makes the BufWriter
\* flush first, or, being as long as BUF_SIZE, goes to the sink directly,
\* the bytes accepted by the sink, then those held by the BufWriter, then
\* those of the write_all in progress are the bytes of the spans issued so
\* far laid end to end; so a successful call's output is the concatenation
\* of its spans in emission order.
C15_StrategyIndependence ==
    /\ (result = Pending /\ ~InPlace) =>
            sink \o bw.buf \o cur = BytesOf(data0, spans)
    /\ (Succeeded /\ ~InPlace) => sink = BytesOf(data0, spans)

\* A successful call in which one span went into the BufWriter and a later
\* one, as long as BUF_SIZE, forced a flush and bypassed it.
C15_Witness ==
    /\ Succeeded
    /\ bw.active
    /\ Len(spans) = 2
    /\ spans[1][2] - spans[1][1] < BUF_SIZE
    /\ spans[2][2] - spans[2][1] >= BUF_SIZE
    /\ Len(wlog) = 2
    /\ wlog[2].offer = Slice(data0, spans[2][1], spans[2][2])
    /\ sink = BytesOf(data0, spans)

\* C16: for every buffer, separator byte and mode, tac_bytes_owned and
\* tac_bytes write the same bytes, the records of the buffer last to first:
\* in place when the buffer ends with the separator (empty records and a
\* buffer of separators only included), through tac_bytes otherwise;
\* "A\nB" gives "BA\n".
C16_OwnedEquivalence ==
    (Succeeded /\ entry \in {"tac_bytes", "tac_bytes_owned"}) =>
        /\ sink = TacOf(data0, separator[1], before)
        /\ (data0 = <<65, 10, 66>> /\ separator = <<10>> /\ ~before)
                => sink = <<66, 65, 10>>

C16_Witness ==
    /\ Succeeded
    /\ InPlace
    /\ data0 = <<97, 98, 10, 99, 10>>
    /\ sink = <<99, 10, 97, 98, 10>>

\* C17: a byte-string separator of two bytes or more: the positions found
\* are occurrences of the separator, each starting at or after the end of
\* the one before, and each the first occurrence at or after that end (an
\* occurrence overlapping a listed one is not a match of its own); the
\* records are formed from them: "x::y::z" with "::" in After mode gives
\* "zy::x::".
C17_NonOverlapping ==
    (entry = "tac_string_separator" /\ Len(separator) >= 2 /\ pc # "start") =>
        /\ positions = find_iter(data0, separator)
        /\ \A k \in 1..Len(positions) :
              LET from == IF k = 1 THEN 0 ELSE positions[k - 1] + Len(separator)
              IN  /\ positions[k] >= from
                  /\ OccursAt(data0, separator, positions[k])
                  /\ \A p \in from..(positions[k] - 1) : ~OccursAt(data0, separator, p)
        /\ LET from == IF positions = <<>> THEN 0
                       ELSE positions[Len(positions)] + Len(separator)
           IN  \A p \in from..Len(data0) : ~OccursAt(data0, separator, p)
        /\ (Succeeded /\ ~before /\ separator = <<58, 58>>
                /\ data0 = <<120, 58, 58, 121, 58, 58, 122>>)
              => sink = <<122, 121, 58, 58, 120, 58, 58>>

\* A self-overlapping separator in a buffer with overlapping occurrences.
C17_Witness ==
    /\ Succeeded
    /\ entry = "tac_string_separator"
    /\ separator = <<97, 97>>
    /\ data0 = <<97, 97, 97, 97>>
    /\ positions = <<0, 2>>

\* C18: for every buffer, byte b and mode, tac_string_separator with the
\* one-byte string [b] and tac_regex_separator with the pattern of the
\* literal byte b write what tac_bytes writes with b: the records of the
\* buffer for b, last to first.
C18_OneByteSeparator ==
    Succeeded =>
        /\ (entry \in {"tac_bytes", "tac_string_separator"} /\ Len(separator) = 1)
              => sink = TacOf(data0, separator[1], before)
        /\ (entry = "tac_regex_separator" /\ pattern.op = "lit")
              => sink = TacOf(data0, pattern.arg[1], before)

C18_Witness ==
    /\ Succeeded
    /\ entry = "tac_regex_separator"
    /\ pattern = Pat("lit", <<10>>)
    /\ ~before
    /\ data0 = <<97, 10, 10, 97>>
    /\ sink = <<97, 10, 97, 10>>

\* parse_ranges has returned Ok(merged).
CutOk == cut_pc = "done" /\ cut_result = "Ok"

\* parse_ranges has returned Err.
CutErr == cut_pc = "done" /\ cut_result # "Ok"

\* Position p is covered by a range of rs.
Covered(rs, p) == \E k \in 1..Len(rs) : rs[k].start <= p /\ p <= rs[k].end

\* Position p is covered by an item of the LIST.
InList(p) ==
    \E k \in 1..Len(items) :
        items[k].kind = "range" /\ items[k].lo <= p /\ p <= items[k].hi

\* The text of the LIST is t.
ListIs(t) == list = t

\* C19: for every LIST parse_ranges accepts, the ranges returned are sorted
\* by start, pairwise disjoint and not adjacent (next.start > prev.end + 1),
\* overlapping and adjacent items having been merged ("1-3,2-5" gives [1,5],
\* "1-2,3-4" gives [1,4]); an open end is usize::MAX; and a position is
\* covered by the result iff it is covered by an item of the LIST.
C19_Normalized ==
    CutOk =>
        /\ merged # <<>>
        /\ \A k \in 1..Len(merged) : merged[k].start <= merged[k].end
        /\ \A k \in 1..(Len(merged) - 1) : merged[k + 1].start > merged[k].end + 1
        /\ \A p \in 1..USIZE_MAX : Covered(merged, p) <=> InList(p)
        /\ (\E k \in 1..Len(items) :
                items[k].kind = "range" /\ items[k].text[Len(items[k].text)] = "-")
              => merged[Len(merged)].end = USIZE_MAX
        /\ ListIs(<<"1", "-", "3", ",", "2", "-", "5">>) => merged = <<Range(1, 5)>>
        /\ ListIs(<<"1", "-", "2", ",", "3", "-", "4">>) => merged = <<Range(1, 4)>>
        /\ ListIs(<<"-", "3">>) => merged = <<Range(1, 3)>>
        /\ ListIs(<<"3", "-">>) => merged = <<Range(3, USIZE_MAX)>>

\* "4-5,1,2-3": three items out of order, merged into one range.
C19_Witness ==
    /\ CutOk
    /\ ListIs(<<"4", "-", "5", ",", "1", ",", "2", "-", "3">>)
    /\ ranges = <<Range(1, 1), Range(2, 3), Range(4, 5)>>
    /\ merged = <<Range(1, 5)>>

FieldEnds(line, d) == {k - 1 : k \in {j \in 1..Len(line) : line[j] = d}} \cup {Len(line)}

\* The k-th smallest element of a set of numbers.
RECURSIVE Kth(_, _)
Kth(S, k) == IF k = 1 THEN Min(S) ELSE Kth(S \ {Min(S)}, k - 1)

\* Field k (from 1) of line: from after the delimiter that ends field k - 1
\* to the delimiter that ends field k.
FieldOf(line, d, k) ==
    LET E == FieldEnds(line, d)
    IN  Slice(line, IF k = 1 THEN 0 ELSE Kth(E, k - 1) + 1, Kth(E, k))

\* The fields of line numbered in ks (ascending), joined with od.
RECURSIVE JoinFields(_, _, _, _)
JoinFields(line, d, ks, od) ==
    IF ks = {} THEN <<>>
    ELSE LET k == Min(ks)
         IN  FieldOf(line, d, k)
             \o (IF ks = {k} THEN <<>> ELSE od \o JoinFields(line, d, ks \ {k}, od))

\* The indexes of the fields of the line that the call is to write.
Wanted ==
    {k \in 1..Cardinality(FieldEnds(f_line, f_delim)) :
        Covered(f_ranges, k) # f_complement}

HasDelim == \E j \in 1..Len(f_line) : f_line[j] = f_delim

\* C21: cut_fields has returned: for a line holding the delimiter the output
\* is the fields whose 1-based index the ranges cover (with complement, those
\* they do not), in the order of the line, joined by the output delimiter,
\* empty fields being fields like the others; a line without the delimiter
\* is written whole, or not at all with suppress_no_delim.
C21_FieldSelection ==
    f_pc = "done" =>
        /\ HasDelim => f_out = JoinFields(f_line, f_delim, Wanted, f_odelim)
        /\ (~HasDelim /\ ~f_suppress) => f_out = f_line
        /\ (~HasDelim /\ f_suppress) => f_out = <<>>
        /\ (f_line = <<97, 58, 98, 58, 99, 58, 100>> /\ f_odelim = <<58>>
                /\ f_ranges = <<Range(1, 1), Range(3, 3)>> /\ ~f_complement)
              => f_out = <<97, 58, 99>>
        /\ (f_line = <<97, 58, 98, 58, 99, 58, 100>> /\ f_odelim = <<58>>
                /\ f_ranges = <<Range(2, 2)>> /\ f_complement)
              => f_out = <<97, 58, 99, 58, 100>>

\* "b::a" with 2-: the empty field 2 and the fields after it, joined by "--".
C21_Witness ==
    /\ f_pc = "done"
    /\ f_line = <<98, 58, 58, 97>>
    /\ f_ranges = <<Range(2, USIZE_MAX)>>
    /\ ~f_complement
    /\ f_odelim = <<45, 45>>
    /\ f_out = <<45, 45, 97>>

\* The matches of a list lie within [0, len), each ends at or before the
\* start of the next, and their starts increase strictly.
WellFormed(ms, len) ==
    /\ \A k \in 1..Len(ms) :
          /\ 0 <= ms[k][1]
          /\ ms[k][1] <= ms[k][2]
          /\ ms[k][1] < len
          /\ ms[k][2] <= len
    /\ \A k \in 1..(Len(ms) - 1) :
          /\ ms[k][2] <= ms[k + 1][1]
          /\ ms[k][1] < ms[k + 1][1]

\* C22: the match list the record assembler works from is well formed for a
\* byte, a (non-empty) byte string and a pattern: the matches lie within
\* [0, len), each ends at or before the start of the next and the starts
\* increase strictly; for a pattern this is the list after its reversal,
\* patterns that match the empty string included.
C22_MatchListWellFormed ==
    pc # "start" => WellFormed(MatchList, Len(data0))

\* A pattern that matches the empty string, with matches of no byte and of
\* one byte in the list.
C22_Witness ==
    /\ Succeeded
    /\ entry = "tac_regex_separator"
    /\ pattern.op = "star"
    /\ Len(matches) = MaxLen
    /\ \E k \in 1..Len(matches) : matches[k][1] = matches[k][2]
    /\ \E k \in 1..Len(matches) : matches[k][1] < matches[k][2]

\* The pattern matches in buf starting exactly at offset q.
MatchesAt(re, buf, q) == MatchEndAt(re, buf, q) # -1

\* C23: every match recorded by the backward scan, for the bound it was
\* found under, starts at the largest pos < bound at which the pattern
\* matches exactly at pos inside data[..bound]: no position between pos and
\* bound starts a match, the match ends at or before bound, and the next
\* search runs under bound = pos (the first under data.len()); the list
\* returned is these matches in ascending order; so "b+" over a run of k
\* bytes b yields k one-byte matches.
C23_BackwardPick ==
    /\ \A k \in 1..Len(s_log) :
          LET e   == s_log[k]
              buf == Slice(s_data, 0, e.bound)
          IN  /\ 0 <= e.pos /\ e.pos < e.bound
              /\ MatchesAt(s_re, buf, e.pos)
              /\ e.stop = MatchEndAt(s_re, buf, e.pos)
              /\ e.stop <= e.bound
              /\ \A q \in (e.pos + 1)..(e.bound - 1) : ~MatchesAt(s_re, buf, q)
              /\ e.bound = IF k = 1 THEN Len(s_data) ELSE s_log[k - 1].pos
    /\ (s_pc \notin {"idle", "start"}) =>
          past_end = IF s_log = <<>> THEN Len(s_data) ELSE s_log[Len(s_log)].pos
    /\ s_pc = "done" =>
          /\ s_matches = Reverse([k \in 1..Len(s_log) |-> <<s_log[k].pos, s_log[k].stop>>])
          /\ s_matches = find_regex_matches_backward(s_data, s_re)
          /\ s_re.op = "plus" =>
                /\ \A k \in 1..Len(s_matches) : s_matches[k][2] = s_matches[k][1] + 1
                /\ Len(s_matches) =
                      Cardinality({j \in 1..Len(s_data) : s_data[j] = s_re.arg[1]})

\* "a\n\n\n" with "\n+": three matches of one byte.
C23_Witness ==
    /\ s_pc = "done"
    /\ s_re = Pat("plus", <<10>>)
    /\ s_data = <<97, 10, 10, 10>>
    /\ s_matches = <<<<1, 2>>, <<2, 3>>, <<3, 4>>>>

\* No position of data[..bound] starts a match.
NothingBelow(bound) ==
    \A q \in 0..(bound - 1) : ~MatchesAt(s_re, Slice(s_data, 0, bound), q)

\* C24: find_regex_matches_backward returns for every buffer and every
\* pattern, those matching the empty string included: every step that
\* records a match lowers past_end, the loops are left only when
\* past_end is 0 or a whole scan of [0, past_end) found nothing, and never
\* more matches than the buffer has bytes are recorded.
C24_Terminates ==
    /\ <>(s_pc = "done")
    /\ [][Len(s_matches') > Len(s_matches) => past_end' < past_end]_vars
    /\ [](s_pc \in {"reverse", "done"} => (past_end = 0 \/ NothingBelow(past_end)))
    /\ [](Len(s_matches) <= Len(s_data))

\* The longest buffer, a pattern matching the empty string, a match at
\* every offset.
C24_Witness ==
    /\ s_pc = "done"
    /\ s_re.op = "star"
    /\ Len(s_data) = MaxLen
    /\ Len(s_matches) = MaxLen
    /\ \E k \in 1..Len(s_matches) : s_matches[k][1] = s_matches[k][2]
    /\ past_end = 0

\* C25: a record span of no byte is not written: no write_all the engine
\* issues, and no write() on the sink, is given an empty byte range, on any
\* path.
C25_NoEmptyWrite ==
    /\ \A k \in 1..Len(wlog) : wlog[k].offer # <<>>
    /\ \A k \in 1..Len(spans) : spans[k][1] < spans[k][2]

\* ---------------------------------------------------------- claims on comm

CommDone == c_pc = "done"

\* The call returned from the --check-order branch of an order check.
StrictAborted == c_cfg.order_check = "Strict" /\ had_order_error

\* The lines of a log that went to one of the columns cols, in order.
RECURSIVE LogLines(_, _)
LogLines(log, cols) ==
    IF log = <<>> THEN <<>>
    ELSE (IF Head(log).col \in cols THEN <<Head(log).line>> ELSE <<>>)
         \o LogLines(Tail(log), cols)

\* The lines of file 2 in a log: those of column 2 and the twins of column 3.
RECURSIVE LogLines2(_)
LogLines2(log) ==
    IF log = <<>> THEN <<>>
    ELSE (IF Head(log).col = 2 THEN <<Head(log).line>>
          ELSE IF Head(log).col = 3 THEN <<Head(log).twin>> ELSE <<>>)
         \o LogLines2(Tail(log))

Shown(column) ==
    CASE column = 1 -> ~c_cfg.suppress_col1
      [] column = 2 -> ~c_cfg.suppress_col2
      [] column = 3 -> ~c_cfg.suppress_col3

\* One tab for every shown column to the left of col.
RECURSIVE Tabs(_)
Tabs(column) ==
    IF column = 1 THEN <<>>
    ELSE Tabs(column - 1) \o (IF Shown(column - 1) THEN <<9>> ELSE <<>>)

\* What a log of classified lines looks like on the output.
RECURSIVE Rendered(_)
Rendered(log) ==
    IF log = <<>> THEN <<>>
    ELSE (IF Shown(Head(log).col) THEN Tabs(Head(log).col) \o Head(log).line \o <<10>>
          ELSE <<>>)
         \o Rendered(Tail(log))

\* A decimal number as text.
RECURSIVE Decimal(_)
Decimal(n) ==
    (IF n >= 10 THEN Decimal(n \div 10) ELSE <<>>)
    \o <<CHOOSE d \in 48..57 : d - 48 = n % 10>>

ExpectedTotal ==
    Decimal(Len(LogLines(c_log, {1}))) \o <<9>> \o Decimal(Len(LogLines(c_log, {2})))
        \o <<9>> \o Decimal(Len(LogLines(c_log, {3}))) \o <<9, 116, 111, 116, 97, 108, 10>>

\* The line of file f at index ix sorts before the line in front of it.
Descent(f, ix) ==
    /\ ix > 0
    /\ ix < Len(c_src[f])
    /\ compare_lines(c_src[f][ix + 1], c_src[f][ix], c_cfg.case_insensitive) = "Less"

Warnings(f) ==
    Cardinality({k \in 1..Len(c_err) :
        c_err[k] = IF f = 1 THEN "file 1 is not in sorted order"
                   ELSE "file 2 is not in sorted order"})

\* C26: with OrderCheck::Strict, the step that finds a line sorting before
\* its predecessor in its file is the last one: comm returns Ok with
\* had_order_error set, what was produced for the lines consumed before is
\* on the output, and the offending line, the lines after it and the total
\* line are neither output nor counted.
C26_StrictStop ==
    StrictAborted =>
        /\ CommDone
        /\ c_ret = "Ok"
        /\ Warnings(1) + Warnings(2) = 1
        /\ \/ Warnings(1) = 1 /\ Descent(1, i1)
           \/ Warnings(2) = 1 /\ Descent(2, i2)
        /\ LogLines(c_log, {1, 3}) = SubSeq(c_src[1], 1, i1)
        /\ LogLines2(c_log) = SubSeq(c_src[2], 1, i2)
        /\ count1 = Len(LogLines(c_log, {1}))
        /\ count2 = Len(LogLines(c_log, {2}))
        /\ count3 = Len(LogLines(c_log, {3}))
        /\ c_out = Rendered(c_log)

\* A Strict call with --total stopped at the second line of a three-line
\* file 1, after two lines had been classified.
C26_Witness ==
    /\ StrictAborted
    /\ c_cfg.total
    /\ Len(c_log) = 2
    /\ c_out # <<>>
    /\ i1 = 1
    /\ Len(lines1) = 3

\* C29: a call that completes without a Strict abort has classified every
\* line of both files exactly once, in file order: count1 + count3 and
\* count2 + count3 are the line counts of the files, the output is the
\* unsuppressed lines in their columns in merge order (then the total line),
\* and in Default mode there is at most one not-sorted warning per file.
C29_EveryLineOnce ==
    (CommDone /\ ~StrictAborted) =>
        /\ c_ret = "Ok"
        /\ count1 + count3 = Len(c_src[1])
        /\ count2 + count3 = Len(c_src[2])
        /\ LogLines(c_log, {1, 3}) = c_src[1]
        /\ LogLines2(c_log) = c_src[2]
        /\ count1 = Len(LogLines(c_log, {1}))
        /\ count2 = Len(LogLines(c_log, {2}))
        /\ count3 = Len(LogLines(c_log, {3}))
        /\ c_out = Rendered(c_log) \o (IF c_cfg.total THEN ExpectedTotal ELSE <<>>)
        /\ c_cfg.order_check = "Default" => Warnings(1) <= 1 /\ Warnings(2) <= 1
        /\ c_cfg.order_check = "None" => c_err = <<>>

\* A Default call on a file 1 with two descents ("b", "a", "B") ran to the
\* end with one warning for the file and a common line.
C29_Witness ==
    /\ CommDone
    /\ c_cfg.order_check = "Default"
    /\ c_src = <<<<<<98>>, <<97>>, <<66>>>>, <<<<97>>, <<98>>>>>>
    /\ Warnings(1) = 1
    /\ count3 = 1
    /\ count1 = 2

\* ------------------------------------------------------- claims on ftac

\* C28: whatever the type of a readable path and whatever length its
\* metadata reports, a successful read_file_for_tac returns every byte that
\* can be read from the file up to end of file.
C28_CompleteContent ==
    (r_pc = "done" /\ r_ret = "Ok") => r_out = r_content

\* The files a finished ftac took up that failed: unreadable, or reversed
\* with an error other than BrokenPipe.
Failures == {k \in 1..Len(d_log) : d_log[k] \in {"unreadable", "Other"}}

\* C27: ftac exits with status 1 exactly when some file it took up could
\* not be read or some engine call returned an error other than BrokenPipe,
\* whatever happened with the files after that one.
C27_ExitStatus ==
    d_pc = "exited" => (d_exit = 1 <=> Failures # {})

\* ----------------------------------------------------- claims on base64

\* Text broken into lines of w characters, each followed by "\n".
RECURSIVE Wrapped(_, _)
Wrapped(text, w) ==
    IF text = <<>> THEN <<>>
    ELSE IF Len(text) <= w THEN text \o <<10>>
    ELSE SubSeq(text, 1, w) \o <<10>> \o Wrapped(SubSeq(text, w + 1, Len(text)), w)

ExpectedBase64 ==
    IF wrap_col = 0 THEN encode(b_data) ELSE Wrapped(encode(b_data), wrap_col)

\* C30: for every input and wrap column, encode_to_writer and encode_stream
\* both succeed and write the same bytes: the base64 text of the whole input
\* with a newline after every wrap_col characters and after a last partial
\* line.
C30_SameOutput ==
    b_pc = "done" =>
        /\ w_ret = "Ok"
        /\ st_ret = "Ok"
        /\ w_out = st_out
        /\ st_out = ExpectedBase64

============================================================================
